---- MODULE Spec2Model ----
(***************************************************************************)
(* SongMatch backend: the three-layer matching algorithm (MatchingService), *)
(* the Redis-backed match cache (MatchCacheService) and the Postgres-backed *)
(* song cache (SongCacheService) in front of the Spotify service.            *)
(*                                                                          *)
(* Numbers.  The code computes in IEEE doubles; the model computes the same *)
(* expressions in exact rational arithmetic:                                *)
(*   - a similarity s in [0,1] is the integer s * SCALE;                    *)
(*   - a weight w is the integer w * 100;                                   *)
(*   - a layer score l is the integer l * LayerDen;                         *)
(*   - valence, energy, danceability, acousticness are in hundredths        *)
(*     (v * UNIT); tempo is in whole BPM, loudness in whole dB, durationMs  *)
(*     in milliseconds (multiples of 100 ms, so that d/300 is exact).       *)
(* Strings that the code compares or sorts (song ids, genres, artist names) *)
(* are sequences of UTF-16 code units; fixed sentences are TLA+ strings.    *)
(* An optional field is <<>> when undefined and <<x>> when it holds x.      *)
(* Time is in seconds (Date.now() / 1000).                                  *)
(***************************************************************************)
EXTENDS Integers, Sequences, FiniteSets, TLC

VARIABLES
    features1,      \* calculateMatch: first argument
    features2,      \* calculateMatch: second argument
    matchResult,    \* calculateMatch: <<>> before the call, <<MatchResult>> after
    now,            \* wall clock, seconds
    redis,          \* Redis: key -> [val, exp, at, src] for the keys that exist
    matchCalls,     \* MatchCacheService calls in flight or just finished, per slot
    redisQueue,     \* commands sent on the Redis connection and not yet answered, in order
    songCache,      \* Postgres table songCache: songId -> row (platform 'spotify')
    songCalls,      \* SongCacheService calls in flight or just finished, per slot
    workload        \* the mix of requests this run is made of (see Workloads)

scoreVars == <<features1, features2, matchResult>>
matchVars == <<now, redis, matchCalls, redisQueue>>
songVars == <<songCache, songCalls>>
vars == <<features1, features2, matchResult, now, redis, matchCalls, redisQueue,
          songCache, songCalls, workload>>

----------------------------------------------------------------------------
(* Arithmetic helpers (Math.abs, Math.max, Math.min, Math.round).           *)

Abs(x) == IF x < 0 THEN -x ELSE x

Max(a, b) == IF a >= b THEN a ELSE b

Min(a, b) == IF a <= b THEN a ELSE b

\* Math.round(n / d) for d > 0: the nearest integer, halves rounded up.
MathRound(n, d) == (2 * n + d) \div (2 * d)

\* Fixed-point scales of the model (see the header).
SCALE == 30 * 100

UNIT == 10 * 10

LayerDen == 300 * SCALE

\* An optional value: <<>> is undefined.
Undefined == <<>>

Some(x) == <<x>>

----------------------------------------------------------------------------
(* MatchingService: similarity primitives.                                  *)

\* 1 - |v1 - v2|
continuousSimilarity(v1, v2) == SCALE - (SCALE \div UNIT) * Abs(v1 - v2)

\* Faulty variant of tempoOctave: the bounds are inclusive.
tempoOctave_Inclusive(bpm1, bpm2) ==
    LET hi == IF bpm1 >= bpm2 THEN bpm1 ELSE bpm2
        lo == IF bpm1 <= bpm2 THEN bpm1 ELSE bpm2
    IN  \/ 10 * Abs(hi - 2 * lo) <= lo
        \/ 10 * Abs(2 * hi - lo) <= 2 * lo

\* ratio = max/min; |ratio - 2.0| < 0.1 || |ratio - 0.5| < 0.1, cross-multiplied
\* by 10 * min (and 20 * min) for positive tempos.
tempoOctave(bpm1, bpm2) ==
    LET hi == Max(bpm1, bpm2)
        lo == Min(bpm1, bpm2)
    IN  \/ 10 * Abs(hi - 2 * lo) < lo
        \/ 10 * Abs(2 * hi - lo) < 2 * lo

tempoSimilarity(bpm1, bpm2) ==
    IF tempoOctave(bpm1, bpm2)
    THEN (7 * SCALE) \div 10
    ELSE LET diff == Abs(bpm1 - bpm2)
         IN  Max(0, SCALE - (SCALE \div 50) * diff)

CIRCLE_OF_FIFTHS == <<0, 7, 2, 9, 4, 11, 6, 1, 8, 3, 10, 5>>

\* Array.prototype.indexOf on CIRCLE_OF_FIFTHS (0-based).
circleIndexOf(k) == (CHOOSE p \in 1..12 : CIRCLE_OF_FIFTHS[p] = k) - 1

\* Faulty variant of buildCircleDistanceMatrix: the distance does not wrap.
buildCircleDistanceMatrix_NoWrap ==
    [i \in 0..11 |->
        [j \in 0..11 |-> Abs(circleIndexOf(i) - circleIndexOf(j))]]

buildCircleDistanceMatrix ==
    [i \in 0..11 |->
        [j \in 0..11 |->
            LET pos1 == circleIndexOf(i)
                pos2 == circleIndexOf(j)
                clockwise == Abs(pos1 - pos2)
                counterclockwise == 12 - clockwise
            IN  Min(clockwise, counterclockwise)]]

CIRCLE_DISTANCE_MATRIX == buildCircleDistanceMatrix

keySimilarity(key1, mode1, key2, mode2) ==
    IF key1 = key2 /\ mode1 = mode2 THEN SCALE
    ELSE IF key1 = key2 THEN (7 * SCALE) \div 10
    ELSE LET distance == CIRCLE_DISTANCE_MATRIX[key1][key2]
             similarity == SCALE - (SCALE \div 6) * distance
         IN  IF mode1 = mode2 THEN similarity ELSE (similarity * 8) \div 10

timeSignatureSimilarity_OneWay(ts1, ts2) ==
    IF ts1 = ts2 THEN SCALE
    ELSE IF ts1 = 6 /\ ts2 = 3 THEN (7 * SCALE) \div 10
    ELSE (3 * SCALE) \div 10

timeSignatureSimilarity(ts1, ts2) ==
    IF ts1 = ts2 THEN SCALE
    ELSE IF (ts1 = 6 /\ ts2 = 3) \/ (ts1 = 3 /\ ts2 = 6) THEN (7 * SCALE) \div 10
    ELSE (3 * SCALE) \div 10

\* norm = (db + 60) / 60, kept as the numerator db + 60 over 60.
loudnessSimilarity(db1, db2) ==
    LET norm1 == db1 + 60
        norm2 == db2 + 60
    IN  SCALE - (SCALE \div 60) * Abs(norm1 - norm2)

\* diff = |ms1 - ms2| / 1000 seconds, kept in milliseconds.
durationSimilarity(ms1, ms2) ==
    LET diff == Abs(ms1 - ms2)
    IN  IF diff < 10 * 1000 THEN SCALE
        ELSE IF diff < 30 * 1000 THEN (8 * SCALE) \div 10
        ELSE IF diff < 60 * 1000 THEN (6 * SCALE) \div 10
        ELSE Max(0, SCALE - diff \div ((300 * 1000) \div SCALE))

\* Faulty variant of toLowerCase: the string as it is.
toLowerCase_Identity(s) == s

\* String.prototype.toLowerCase on code units: A-Z (65..90) map to a-z.
toLowerCase(s) == [i \in 1..Len(s) |-> IF s[i] >= 65 /\ s[i] <= 90 THEN s[i] + 32 ELSE s[i]]

\* Faulty variant of genreSimilarity: a song without genres scores 0 on genre
\* instead of the neutral 0.5.
genreSimilarity_NoNeutral(genres1, genres2) ==
    IF Len(genres1) = 0 \/ Len(genres2) = 0 THEN 0
    ELSE LET set1 == {toLowerCase(genres1[i]) : i \in 1..Len(genres1)}
             set2 == {toLowerCase(genres2[i]) : i \in 1..Len(genres2)}
         IN  (SCALE * Cardinality(set1 \cap set2)) \div Cardinality(set1 \cup set2)

\* genres1, genres2 are arrays (f.genres || []).
genreSimilarity(genres1, genres2) ==
    IF Len(genres1) = 0 \/ Len(genres2) = 0 THEN SCALE \div 2
    ELSE LET set1 == {toLowerCase(genres1[i]) : i \in 1..Len(genres1)}
             set2 == {toLowerCase(genres2[i]) : i \in 1..Len(genres2)}
             intersection == {x \in set1 : x \in set2}
             union == set1 \cup set2
         IN  (SCALE * Cardinality(intersection)) \div Cardinality(union)

\* !artist: undefined or the empty string.
artistMissing(artist) == artist = Undefined \/ artist[1] = <<>>

artistSimilarity(artist1, artist2) ==
    IF artistMissing(artist1) \/ artistMissing(artist2) THEN SCALE \div 2
    ELSE IF artist1 = artist2 THEN SCALE ELSE 0

\* !year: undefined or 0.
yearMissing(year) == year = Undefined \/ year[1] = 0

\* Faulty variant of eraSimilarity: the Math.max(0, ...) is left out.
eraSimilarity_Unclamped(year1, year2) ==
    IF yearMissing(year1) \/ yearMissing(year2) THEN SCALE \div 2
    ELSE LET decade1 == (year1[1] \div 10) * 10
             decade2 == (year2[1] \div 10) * 10
             diff == Abs(decade1 - decade2) \div 10
         IN  IF decade1 = decade2 THEN SCALE ELSE SCALE - (diff * SCALE) \div 5


eraSimilarity(year1, year2) ==
    IF yearMissing(year1) \/ yearMissing(year2) THEN SCALE \div 2
    ELSE LET decade1 == (year1[1] \div 10) * 10
             decade2 == (year2[1] \div 10) * 10
         IN  IF decade1 = decade2 THEN SCALE
             ELSE LET diff == Abs(decade1 - decade2) \div 10
                  IN  Max(0, SCALE - (diff * SCALE) \div 5)

\* f.genres || []
genresOrEmpty(f) == IF f.genres = Undefined THEN <<>> ELSE f.genres[1]

----------------------------------------------------------------------------
(* MatchingService: layers, confidence, explanation, calculateMatch.        *)

ScoreComponent(similarity, weight, values, label) ==
    [similarity |-> similarity, weight |-> weight, values |-> values, label |-> label]

\* Object.values(components).reduce((sum, comp) => sum + comp.similarity * comp.weight, 0)
\* over the component names in insertion order.
weightedSum(components, names) ==
    LET RECURSIVE reduce(_)
        reduce(n) == IF n = 0 THEN 0
                     ELSE reduce(n - 1)
                          + components[names[n]].similarity * components[names[n]].weight
    IN  reduce(Len(names))

\* sum / totalWeight, as a layer score over LayerDen (sum is over SCALE * 100,
\* totalWeight over 100).
\* Faulty variant of normalizeLayer: every layer divided by layer 1's 0.6.
normalizeLayer_Sixty(sum, totalWeight) == (sum * (LayerDen \div SCALE)) \div 60

normalizeLayer(sum, totalWeight) == (sum * (LayerDen \div SCALE)) \div totalWeight

Layer1Names == <<"valence", "energy", "danceability", "tempo", "acousticness">>

Layer2Names == <<"keyMode", "timeSignature", "loudness", "duration">>

Layer3Names == <<"genre", "artist", "era">>

calculateLayer1(f1, f2) ==
    LET components ==
          [valence |-> ScoreComponent(continuousSimilarity(f1.valence, f2.valence),
                                      15, <<f1.valence, f2.valence>>, "Mood/Positivity"),
           energy |-> ScoreComponent(continuousSimilarity(f1.energy, f2.energy),
                                     15, <<f1.energy, f2.energy>>, "Energy Level"),
           danceability |-> ScoreComponent(
                                continuousSimilarity(f1.danceability, f2.danceability),
                                12, <<f1.danceability, f2.danceability>>, "Danceability"),
           tempo |-> ScoreComponent(tempoSimilarity(f1.tempo, f2.tempo),
                                    10, <<f1.tempo, f2.tempo>>, "Tempo (BPM)"),
           acousticness |-> ScoreComponent(
                                continuousSimilarity(f1.acousticness, f2.acousticness),
                                8, <<f1.acousticness, f2.acousticness>>, "Acousticness")]
    IN  [score |-> normalizeLayer(weightedSum(components, Layer1Names), 60),
         components |-> components]

\* values of keyMode are key + mode / 10, kept in tenths.
calculateLayer2(f1, f2) ==
    LET components ==
          [keyMode |-> ScoreComponent(keySimilarity(f1.key, f1.mode, f2.key, f2.mode),
                                      10, <<10 * f1.key + f1.mode, 10 * f2.key + f2.mode>>,
                                      "Key & Mode"),
           timeSignature |-> ScoreComponent(
                                 timeSignatureSimilarity(f1.timeSignature, f2.timeSignature),
                                 5, <<f1.timeSignature, f2.timeSignature>>, "Time Signature"),
           loudness |-> ScoreComponent(loudnessSimilarity(f1.loudness, f2.loudness),
                                       5, <<f1.loudness, f2.loudness>>, "Loudness"),
           duration |-> ScoreComponent(durationSimilarity(f1.durationMs, f2.durationMs),
                                       5, <<f1.durationMs, f2.durationMs>>, "Duration")]
    IN  [score |-> normalizeLayer(weightedSum(components, Layer2Names), 25),
         components |-> components]

calculateLayer3(f1, f2) ==
    LET components ==
          [genre |-> ScoreComponent(genreSimilarity(genresOrEmpty(f1), genresOrEmpty(f2)),
                                    8, <<Len(genresOrEmpty(f1)), Len(genresOrEmpty(f2))>>,
                                    "Genre Overlap"),
           artist |-> ScoreComponent(artistSimilarity(f1.artist, f2.artist),
                                     4, <<IF f1.artist = f2.artist THEN 1 ELSE 0, 0>>,
                                     "Artist Match"),
           era |-> ScoreComponent(eraSimilarity(f1.releaseYear, f2.releaseYear),
                                  3, <<IF yearMissing(f1.releaseYear) THEN 0
                                                                     ELSE f1.releaseYear[1],
                                       IF yearMissing(f2.releaseYear) THEN 0
                                                                     ELSE f2.releaseYear[1]>>,
                                  "Era/Decade")]
    IN  [score |-> normalizeLayer(weightedSum(components, Layer3Names), 15),
         components |-> components]

\* Math.round((layer1.score * 0.6 + layer2.score * 0.25 + layer3.score * 0.15) * 100)
overallScoreOf(layer1, layer2, layer3) ==
    MathRound(layer1.score * 60 + layer2.score * 25 + layer3.score * 15, LayerDen)

\* Faulty variant of genresPresent: an empty list counts.
genresPresent_Defined(f) == f.genres /= Undefined

genresPresent(f) == f.genres /= Undefined /\ Len(f.genres[1]) > 0

\* availableFeatures / totalFeatures, kept as the pair [n, d].
calculateConfidence(f1, f2) ==
    LET total == 5 + 4 + 3
        g == IF genresPresent(f1) /\ genresPresent(f2) THEN 1 ELSE 0
        a == IF ~artistMissing(f1.artist) /\ ~artistMissing(f2.artist) THEN 1 ELSE 0
        y == IF ~yearMissing(f1.releaseYear) /\ ~yearMissing(f2.releaseYear) THEN 1 ELSE 0
    IN  [n |-> 5 + 4 + g + a + y, d |-> total]

\* similarity > t / 10 and similarity < t / 10 on the fixed-point value.
Above_Inclusive(similarity, t) == 10 * similarity >= t * SCALE

Above(similarity, t) == 10 * similarity > t * SCALE

Below(similarity, t) == 10 * similarity < t * SCALE

getMoodDescription(valence, energy) ==
    IF valence > 70 /\ energy > 70 THEN "Upbeat and energetic"
    ELSE IF valence > 70 /\ energy < 40 THEN "Happy but calm"
    ELSE IF valence < 40 /\ energy > 70 THEN "Intense and dark"
    ELSE IF valence < 40 /\ energy < 40 THEN "Melancholic and subdued"
    ELSE "Moderate mood and energy"

\* `${speed} tempo (${Math.round(tempo)} BPM), ${dance}` as its three parts.
getRhythmDescription(tempo, danceability) ==
    LET speed == IF tempo < 90 THEN "slow" ELSE IF tempo < 120 THEN "moderate" ELSE "fast"
        dance == IF danceability > 70 THEN "very danceable"
                 ELSE IF danceability > 40 THEN "somewhat danceable"
                 ELSE "not very danceable"
    IN  [speed |-> speed, bpm |-> tempo, dance |-> dance]

KeyNames == <<"C", "C#", "D", "D#", "E", "F", "F#", "G", "G#", "A", "A#", "B">>

\* `${keyName} ${modeName}` as its two parts.
getHarmonyDescription(key, mode) ==
    [keyName |-> KeyNames[key + 1], modeName |-> IF mode = 1 THEN "Major" ELSE "Minor"]

\* artist || 'Unknown style', or `${genres.slice(0, 2).join(', ')}${artist ? ` by ${artist}` : ''}`,
\* as [genres, artist, unknown].
getStyleDescription(genres, artist) ==
    IF genres = Undefined \/ Len(genres[1]) = 0
    THEN [genres |-> <<>>,
          artist |-> IF artistMissing(artist) THEN Undefined ELSE artist,
          unknown |-> artistMissing(artist)]
    ELSE [genres |-> SubSeq(genres[1], 1, Min(2, Len(genres[1]))),
          artist |-> IF artistMissing(artist) THEN Undefined ELSE artist,
          unknown |-> FALSE]

generateExplanation(f1, f2, layers, overallScore) ==
    LET c1 == layers.layer1.components
        c2 == layers.layer2.components
        c3 == layers.layer3.components
        bothGenres == f1.genres /= Undefined /\ f2.genres /= Undefined
        sValence == IF Above(c1.valence.similarity, 8)
                    THEN <<"Very similar mood and emotional tone">> ELSE <<>>
        wValence == IF ~Above(c1.valence.similarity, 8) /\ Below(c1.valence.similarity, 5)
                    THEN <<"Different emotional vibes (one more positive/upbeat)">> ELSE <<>>
        sEnergy == IF Above(c1.energy.similarity, 8)
                   THEN <<"Matching energy levels">> ELSE <<>>
        wEnergy == IF ~Above(c1.energy.similarity, 8) /\ Below(c1.energy.similarity, 5)
                   THEN <<"Contrasting energy (one more intense than the other)">> ELSE <<>>
        sTempo == IF Above(c1.tempo.similarity, 7)
                  THEN <<"Similar tempo and rhythm">> ELSE <<>>
        wTempo == IF ~Above(c1.tempo.similarity, 7) /\ Below(c1.tempo.similarity, 5)
                  THEN <<"Different tempo/speed">> ELSE <<>>
        sKey == IF Above(c2.keyMode.similarity, 8)
                THEN <<"Harmonically compatible (similar key/mode)">> ELSE <<>>
        wKey == IF ~Above(c2.keyMode.similarity, 8) /\ Below(c2.keyMode.similarity, 5)
                THEN <<"Different harmonic structure (key/mode mismatch)">> ELSE <<>>
        sGenre == IF bothGenres /\ Above(c3.genre.similarity, 5)
                  THEN <<"Shared musical genres">> ELSE <<>>
        wGenre == IF ~(bothGenres /\ Above(c3.genre.similarity, 5))
                     /\ bothGenres /\ Below(c3.genre.similarity, 2)
                  THEN <<"Different genres">> ELSE <<>>
        summary == IF overallScore >= 80
                   THEN "These songs are very similar and would pair well together!"
                   ELSE IF overallScore >= 60
                   THEN "These songs share some similarities but have notable differences."
                   ELSE IF overallScore >= 40
                   THEN "These songs have some common elements but differ in key aspects."
                   ELSE "These songs don't match well - they're quite different."
    IN  [summary |-> summary,
         strengths |-> sValence \o sEnergy \o sTempo \o sKey \o sGenre,
         weaknesses |-> wValence \o wEnergy \o wTempo \o wKey \o wGenre,
         details |-> [mood |-> getMoodDescription(f1.valence, f1.energy),
                      rhythm |-> getRhythmDescription(f1.tempo, f1.danceability),
                      harmony |-> getHarmonyDescription(f1.key, f1.mode),
                      style |-> getStyleDescription(f1.genres, f1.artist)]]

ALGORITHM_VERSION == "1.0"

\* Faulty variant of calculateMatch: the score drifts with the time measured.
calculateMatch_Impure(f1, f2, elapsed) ==
    LET layer1 == calculateLayer1(f1, f2)
        layer2 == calculateLayer2(f1, f2)
        layer3 == calculateLayer3(f1, f2)
        overallScore == Max(0, overallScoreOf(layer1, layer2, layer3) - elapsed)
        confidence == calculateConfidence(f1, f2)
        breakdown == [layer1 |-> layer1, layer2 |-> layer2, layer3 |-> layer3]
        explanation == generateExplanation(f1, f2, breakdown, overallScore)
    IN  [overallScore |-> overallScore,
         confidence |-> confidence,
         breakdown |-> breakdown,
         explanation |-> explanation,
         processingTime |-> elapsed,
         algorithmVersion |-> ALGORITHM_VERSION]

\* elapsed is the wall time the call measured (processingTime).
calculateMatch(f1, f2, elapsed) ==
    LET layer1 == calculateLayer1(f1, f2)
        layer2 == calculateLayer2(f1, f2)
        layer3 == calculateLayer3(f1, f2)
        overallScore == overallScoreOf(layer1, layer2, layer3)
        confidence == calculateConfidence(f1, f2)
        breakdown == [layer1 |-> layer1, layer2 |-> layer2, layer3 |-> layer3]
        explanation == generateExplanation(f1, f2, breakdown, overallScore)
    IN  [overallScore |-> overallScore,
         confidence |-> confidence,
         breakdown |-> breakdown,
         explanation |-> explanation,
         processingTime |-> elapsed,
         algorithmVersion |-> ALGORITHM_VERSION]

----------------------------------------------------------------------------
(* Inputs of the matching algorithm: valid AudioFeatures vectors.           *)

\* Largest processingTime the clock may measure (hundredths of a millisecond).
MaxElapsed == 1

ElapsedTimes == 0..MaxElapsed

\* Code units: "pop", "POP", "rock", "synth-pop" shortened to p, P, r, s; artists A, B.
GenrePop == <<112>>

GenrePopUpper == <<80>>

GenreRock == <<114>>

GenreSynth == <<115>>

ArtistA == <<65>>

ArtistB == <<66>>

\* <<valence, energy, danceability, tempo, acousticness>>
Layer1Inputs ==
    { <<80, 70, 75, 120, 30>>,      \* the tests' identicalSong
      <<82, 68, 78, 118, 28>>,      \* similarSong
      <<20, 30, 25, 60, 90>>,       \* oppositeSong
      <<100, 100, 100, 200, 0>>,    \* extreme1
      <<0, 0, 0, 50, 100>> }        \* extreme2

\* <<key, mode, timeSignature, loudness, durationMs>>
Layer2Inputs ==
    { <<0, 1, 4, -5, 200000>>,
      <<7, 1, 4, -6, 210000>>,
      <<6, 0, 3, -15, 400000>>,
      <<11, 1, 7, 0, 600000>>,
      <<0, 0, 6, -60, 60000>> }

\* <<genres, artist, releaseYear>>
Layer3Inputs ==
    { <<Some(<<GenrePop, GenreSynth>>), Some(ArtistA), Some(2020)>>,
      <<Some(<<GenrePopUpper, GenreRock>>), Some(ArtistB), Some(2021)>>,
      <<Some(<<GenreRock>>), Some(ArtistB), Some(1950)>>,
      <<Undefined, Undefined, Undefined>>,
      <<Some(<<>>), Some(<<>>), Some(0)>>,
      <<Some(<<GenrePop>>), Undefined, Some(1985)>> }

AudioFeatures(a, b, c) ==
    [valence |-> a[1], energy |-> a[2], danceability |-> a[3], tempo |-> a[4],
     acousticness |-> a[5],
     key |-> b[1], mode |-> b[2], timeSignature |-> b[3], loudness |-> b[4],
     durationMs |-> b[5],
     genres |-> c[1], artist |-> c[2], releaseYear |-> c[3]]

FeatureVectors ==
    {AudioFeatures(a, b, c) : a \in Layer1Inputs, b \in Layer2Inputs, c \in Layer3Inputs}

\* The ranges the AudioFeatures type documents for a valid vector.
ValidFeatures(f) ==
    /\ \A v \in {f.valence, f.energy, f.danceability, f.acousticness} : v \in 0..UNIT
    /\ f.tempo > 0
    /\ f.key \in 0..11
    /\ f.mode \in {0, 1}
    /\ f.timeSignature \in 3..7
    /\ f.loudness \in -60..0
    /\ f.durationMs > 0

\* All three optional signals are usable on f (genres non-empty, artist and
\* releaseYear truthy).
AllOptionalPresent(f) ==
    genresPresent(f) /\ ~artistMissing(f.artist) /\ ~yearMissing(f.releaseYear)

----------------------------------------------------------------------------
(* The stores and the calls before anything has run.                        *)

EmptyMap == [k \in {} |-> k]

Slots == {1, 2}

IdleCall == [pc |-> "idle"]

InitCaches ==
    /\ now = 0
    /\ redis = EmptyMap
    /\ matchCalls = [s \in Slots |-> IdleCall]
    /\ redisQueue = <<>>
    /\ songCache = EmptyMap
    /\ songCalls = [s \in Slots |-> IdleCall]

----------------------------------------------------------------------------
(* SpecScore: calculateMatch applied to every pair of the input vectors.    *)

InitScore ==
    /\ features1 \in FeatureVectors
    /\ features2 \in FeatureVectors
    /\ matchResult = <<>>
    /\ InitCaches
    /\ workload = "pair"

Score ==
    /\ matchResult = <<>>
    /\ \E elapsed \in ElapsedTimes :
          matchResult' = <<calculateMatch(features1, features2, elapsed)>>
    /\ UNCHANGED <<features1, features2, matchVars, songVars, workload>>

NextScore == Score

SpecScore == InitScore /\ [][NextScore]_vars

Scored == matchResult /= <<>>

Result == matchResult[1]

Components(r) ==
    { r.breakdown.layer1.components[n] : n \in {Layer1Names[i] : i \in 1..Len(Layer1Names)} }
    \cup { r.breakdown.layer2.components[n] : n \in {Layer2Names[i] : i \in 1..Len(Layer2Names)} }
    \cup { r.breakdown.layer3.components[n] : n \in {Layer3Names[i] : i \in 1..Len(Layer3Names)} }

\* C7 (as stated): Score(v, v).overallScore = 100 for every valid v, whichever
\* optional fields are present.
C7_IdentityAnyOptional ==
    (Scored /\ features1 = features2 /\ ValidFeatures(features1))
        => Result.overallScore = 100

\* C7 (amended): Score(v, v).overallScore = 100 for every valid v whose three
\* optional signals are all present; with an optional signal missing the neutral
\* 0.5 of that component keeps Score(v, v) above 90 and below 100.
C7_Identity ==
    (Scored /\ features1 = features2 /\ ValidFeatures(features1))
        => IF AllOptionalPresent(features1)
           THEN Result.overallScore = 100
           ELSE Result.overallScore > 90 /\ Result.overallScore < 100

C7_Witness ==
    /\ Scored
    /\ features1 = features2
    /\ ValidFeatures(features1)
    /\ AllOptionalPresent(features1)
    /\ Result.overallScore = 100

\* C8: for valid pairs 0 <= overallScore <= 100, 0 <= confidence <= 1, and every
\* layer score and component similarity is in [0, 1].
C8_Bounded ==
    (Scored /\ ValidFeatures(features1) /\ ValidFeatures(features2))
        => /\ Result.overallScore \in 0..100
           /\ Result.confidence.n >= 0
           /\ Result.confidence.n <= Result.confidence.d
           /\ \A l \in {Result.breakdown.layer1, Result.breakdown.layer2,
                        Result.breakdown.layer3} : l.score \in 0..LayerDen
           /\ \A c \in Components(Result) : c.similarity \in 0..SCALE

\* An extreme pair: some component is 0 and the overall score is low.
C8_Witness ==
    /\ Scored
    /\ ValidFeatures(features1) /\ ValidFeatures(features2)
    /\ \E c \in Components(Result) : c.similarity = 0
    /\ \E c \in Components(Result) : c.similarity = SCALE
    /\ Result.overallScore < 40

----------------------------------------------------------------------------
(* MatchCacheService: cache key and JSON (de)serialisation.                 *)

\* "match:"
CACHE_PREFIX == <<109, 97, 116, 99, 104, 58>>

\* 7 days in seconds
CACHE_TTL == 7 * 24 * 60 * 60

\* a < b for strings: the order Array.prototype.sort uses (UTF-16 code units).
StrLess(a, b) ==
    \/ /\ Len(a) < Len(b)
       /\ \A i \in 1..Len(a) : a[i] = b[i]
    \/ \E i \in 1..Min(Len(a), Len(b)) :
          /\ a[i] < b[i]
          /\ \A j \in 1..(i - 1) : a[j] = b[j]

\* Faulty variant of sortPair: the ids are joined in the order given.
sortPair_Unsorted(x, y) == <<x, y>>

\* [x, y].sort()
sortPair(x, y) == IF StrLess(y, x) THEN <<y, x>> ELSE <<x, y>>

\* `${CACHE_PREFIX}${id1}:${id2}` with [id1, id2] = [song1Id, song2Id].sort()
getCacheKey(song1Id, song2Id) ==
    LET sorted == sortPair(song1Id, song2Id)
    IN  CACHE_PREFIX \o sorted[1] \o <<58>> \o sorted[2]

\* JSON.stringify of a MatchResult: the members in insertion order, each as
\* <<name, value>>; objects nest.  (Every number of a MatchResult is finite and
\* no member is undefined, so no member is dropped or turned into null.)
stringifyComponents(components, names) ==
    [i \in 1..Len(names) |->
        <<names[i],
          <<<<"similarity", components[names[i]].similarity>>,
            <<"weight", components[names[i]].weight>>,
            <<"values", components[names[i]].values>>,
            <<"label", components[names[i]].label>>>>>>]

stringifyLayer(layer, names) ==
    <<<<"score", layer.score>>,
      <<"components", stringifyComponents(layer.components, names)>>>>

JsonStringify(result) ==
    <<<<"overallScore", result.overallScore>>,
      <<"confidence", result.confidence>>,
      <<"breakdown",
        <<<<"layer1", stringifyLayer(result.breakdown.layer1, Layer1Names)>>,
          <<"layer2", stringifyLayer(result.breakdown.layer2, Layer2Names)>>,
          <<"layer3", stringifyLayer(result.breakdown.layer3, Layer3Names)>>>>>>,
      <<"explanation", result.explanation>>,
      <<"processingTime", result.processingTime>>,
      <<"algorithmVersion", result.algorithmVersion>>>>

\* The value of member `name` of a serialised object.
member(object, name) ==
    object[CHOOSE i \in 1..Len(object) : object[i][1] = name][2]

parseComponents(text) ==
    [n \in {text[i][1] : i \in 1..Len(text)} |->
        LET c == member(text, n)
        IN  [similarity |-> member(c, "similarity"), weight |-> member(c, "weight"),
             values |-> member(c, "values"), label |-> member(c, "label")]]

parseLayer(text) ==
    [score |-> member(text, "score"),
     components |-> parseComponents(member(text, "components"))]

\* Faulty variant of JsonParse: the score is read from the wrong member.
JsonParse_WrongMember(text) ==
    [overallScore |-> member(text, "processingTime"),
     confidence |-> member(text, "confidence"),
     breakdown |-> [layer1 |-> parseLayer(member(member(text, "breakdown"), "layer1")),
                    layer2 |-> parseLayer(member(member(text, "breakdown"), "layer2")),
                    layer3 |-> parseLayer(member(member(text, "breakdown"), "layer3"))],
     explanation |-> member(text, "explanation"),
     processingTime |-> member(text, "processingTime"),
     algorithmVersion |-> member(text, "algorithmVersion")]

\* JSON.parse(cached) as MatchResult
JsonParse(text) ==
    [overallScore |-> member(text, "overallScore"),
     confidence |-> member(text, "confidence"),
     breakdown |-> [layer1 |-> parseLayer(member(member(text, "breakdown"), "layer1")),
                    layer2 |-> parseLayer(member(member(text, "breakdown"), "layer2")),
                    layer3 |-> parseLayer(member(member(text, "breakdown"), "layer3"))],
     explanation |-> member(text, "explanation"),
     processingTime |-> member(text, "processingTime"),
     algorithmVersion |-> member(text, "algorithmVersion")]

----------------------------------------------------------------------------
(* Redis, as the one ioredis client sees it.  Commands are answered in the   *)
(* order they were sent; a command either runs or fails with an error.       *)
(* An entry is [val, exp, at, src]: the stored string, the expiry time, and   *)
(* two history fields (when it was set, and the feature vectors of the call  *)
(* that wrote it).  A key is dead to every command once the time is past its *)
(* expiry, and is removed when a command runs.                               *)

Live(store, key, t) == key \in DOMAIN store /\ t <= store[key].exp

Purge(store, t) == [k \in {x \in DOMAIN store : Live(store, x, t)} |-> store[k]]

\* GET key: <<>> is the nil reply.
redisGet(store, key, t) == IF Live(store, key, t) THEN <<store[key].val>> ELSE <<>>

\* SETEX key ttl val
redisSetex(store, key, ttl, val, t, src) ==
    [k \in DOMAIN store \cup {key} |->
        IF k = key THEN [val |-> val, exp |-> t + ttl, at |-> t, src |-> src]
        ELSE store[k]]

\* Faulty variant of redisDel: every key goes.
redisDel_Flush(store, keys) == [k \in {} |-> k]

\* DEL key [key ...]: the store without them.
redisDel(store, keys) == [k \in DOMAIN store \ keys |-> store[k]]

\* the integer DEL answers: the number of keys it removed.
redisDelReply(store, keys, t) == Cardinality({k \in keys : Live(store, k, t)})

\* TTL key, for a live key
redisTtl(store, key, t) == store[key].exp - t

\* The reply to the oldest command is the next to arrive.
NextReply(cmd, s) ==
    /\ redisQueue /= <<>>
    /\ Head(redisQueue).cmd = cmd
    /\ Head(redisQueue).by = s

----------------------------------------------------------------------------
(* MatchCacheService.getMatch                                                *)

SongIdA == <<97>>

SongIdB == <<98>>

SongIds == {SongIdA, SongIdB}

\* The feature vectors getMatch is called with.
FeaturesA ==
    AudioFeatures(<<80, 70, 75, 120, 30>>, <<0, 1, 4, -5, 200000>>,
                  <<Some(<<GenrePop, GenreSynth>>), Some(ArtistA), Some(2020)>>)

FeaturesB ==
    AudioFeatures(<<20, 30, 25, 60, 90>>, <<6, 0, 3, -15, 400000>>,
                  <<Undefined, Undefined, Undefined>>)

\* What getAudioFeatures resolves for song a once its song-cache entry has been
\* invalidated or swept and Spotify reports other audio features.
FeaturesA2 == [FeaturesA EXCEPT !.valence = 20, !.energy = 30]

CallFeatures == {FeaturesA, FeaturesA2, FeaturesB}

\* A run is made of one mix of requests.  The two services share no state but
\* the clock, and each mix exercises one group of operations:
\*   "pair"   getMatch and invalidateMatch on one pair of songs, given in both
\*            orders, two calls at a time, the clock standing still;
\*   "admin"  getMatch on two pairs, invalidateMatch, clearAllMatches and
\*            getCacheStats, one call at a time, time passing at any moment;
\*   "song"   getSongById, invalidateSong and cleanExpiredCache on one song,
\*            two calls at a time, time passing between calls;
\*   "catalog" searchSongs, getSongById, invalidateSong, cleanExpiredCache,
\*            getCacheStats and clearAllCache on two songs, one call at a time,
\*            time passing at any moment;
\*   "refresh" getMatch on one pair with or without bypassCache, two calls at
\*            a time, time passing between calls;
\*   "drift"  getMatch on one pair of ids, the features resolved for one of
\*            them differing from request to request, one call at a time, the
\*            clock standing still;
\*   "colons" getMatch on two pairs of ids that hold the separator ':', one
\*            call at a time, the clock standing still.
Workloads == {"pair", "admin", "song", "catalog", "refresh", "drift", "colons"}

RequestAB == [id1 |-> SongIdA, id2 |-> SongIdB, f1 |-> FeaturesA, f2 |-> FeaturesB]

RequestBA == [id1 |-> SongIdB, id2 |-> SongIdA, f1 |-> FeaturesB, f2 |-> FeaturesA]

RequestAA == [id1 |-> SongIdA, id2 |-> SongIdA, f1 |-> FeaturesA, f2 |-> FeaturesA]

\* Ids the request schema accepts (z.string().min(1)): ":", ":a", "::" and "a".
RequestColons1 == [id1 |-> <<58>>, id2 |-> <<58, 97>>, f1 |-> FeaturesA, f2 |-> FeaturesB]

RequestColons2 == [id1 |-> <<58, 58>>, id2 |-> SongIdA, f1 |-> FeaturesB, f2 |-> FeaturesB]

RequestA2B == [id1 |-> SongIdA, id2 |-> SongIdB, f1 |-> FeaturesA2, f2 |-> FeaturesB]

\* The getMatch requests of the workload.
MatchRequests ==
    IF workload = "pair" THEN {RequestAB, RequestBA}
    ELSE IF workload = "admin" THEN {RequestAB, RequestAA}
    ELSE IF workload = "refresh" THEN {RequestAB}
    ELSE IF workload = "drift" THEN {RequestAB, RequestA2B}
    ELSE IF workload = "colons" THEN {RequestColons1, RequestColons2}
    ELSE {}

BypassChoices == IF workload = "refresh" THEN BOOLEAN ELSE {FALSE}

\* The pairs invalidateMatch is called with.
InvalidateRequests ==
    IF workload = "pair" THEN {<<SongIdA, SongIdB>>, <<SongIdB, SongIdA>>}
    ELSE IF workload = "admin" THEN {<<SongIdB, SongIdA>>, <<SongIdA, SongIdA>>}
    ELSE {}

\* The slots calls run in.
SlotsInUse ==
    IF workload \in {"admin", "catalog", "drift", "colons"} THEN {1} ELSE Slots

\* Most fire-and-forget writes that may be outstanding at once.
MaxPending == 2

\* A call's promise has settled and its caller has not yet taken the outcome.
Settled(c) == c.pc \in {"returned", "threw"}

\* The caller of a settled call takes the outcome before anything else happens
\* (taking it changes nothing else, so running it first loses no behaviour).
Quiet ==
    /\ \A s \in Slots : ~Settled(matchCalls[s])
    /\ \A s \in Slots : ~Settled(songCalls[s])

\* A new call runs in the lowest slot that is idle.
FreeSlot(calls, s) ==
    /\ Quiet
    /\ s \in SlotsInUse
    /\ calls[s].pc = "idle"
    /\ \A r \in Slots : r < s => calls[r].pc /= "idle"

\* getMatch calls that may still issue a write, plus the writes already queued.
Outstanding ==
    Cardinality({s \in Slots : matchCalls[s].pc = "get"})
    + Cardinality({i \in 1..Len(redisQueue) : redisQueue[i].cmd = "SETEX"})

\* Faulty variant of getCachedMatch: the catch throws the error again.
getCachedMatch_Rethrow(ok, reply) ==
    IF ~ok THEN [threw |-> TRUE, value |-> <<>>]
    ELSE IF reply = <<>> THEN [threw |-> FALSE, value |-> <<>>]
    ELSE [threw |-> FALSE, value |-> <<JsonParse(reply[1])>>]

\* getCachedMatch: the GET failed (caught, null), answered nil (null), or
\* answered a string (JSON.parse).
getCachedMatch(ok, reply) ==
    IF ~ok THEN [threw |-> FALSE, value |-> <<>>]
    ELSE IF reply = <<>> THEN [threw |-> FALSE, value |-> <<>>]
    ELSE [threw |-> FALSE, value |-> <<JsonParse(reply[1])>>]

\* Faulty variant of cacheMatch: the TTL is given in minutes.
cacheMatch_Minutes(song1Id, song2Id, result, src) ==
    [cmd |-> "SETEX", key |-> getCacheKey(song1Id, song2Id), ttl |-> 7 * 24 * 60,
     val |-> JsonStringify(result), src |-> src, by |-> 0, early |-> FALSE]

\* cacheMatch up to its await: the SETEX command it sends.
cacheMatch(song1Id, song2Id, result, src) ==
    [cmd |-> "SETEX", key |-> getCacheKey(song1Id, song2Id), ttl |-> CACHE_TTL,
     val |-> JsonStringify(result), src |-> src, by |-> 0, early |-> FALSE]

\* Faulty variant of getMatchMiss: getMatch awaits cacheMatch before it returns.
getMatchMiss_AwaitsWrite(c, elapsed) ==
    LET result == calculateMatch(c.f1, c.f2, elapsed)
    IN  [call |-> [c EXCEPT !.pc = "set", !.computed = @ + 1,
                            !.result = <<result>>, !.issued = @ + 1],
         write |-> cacheMatch(c.id1, c.id2, result, <<c.f1, c.f2>>)]

\* Faulty variant of skipsCache: bypassCache is ignored.
skipsCache_Never(bypassCache) == FALSE

\* getMatch's test `if (!bypassCache)`: the read is skipped.
skipsCache(bypassCache) == bypassCache

\* getMatch from "Cache miss - compute match" on: the call returns the result it
\* computed, with the write sent and not awaited.
getMatchMiss(c, elapsed) ==
    LET result == calculateMatch(c.f1, c.f2, elapsed)
    IN  [call |-> [c EXCEPT !.pc = "returned", !.computed = @ + 1,
                            !.result = <<result>>, !.issued = @ + 1],
         write |-> cacheMatch(c.id1, c.id2, result, <<c.f1, c.f2>>)]

getMatch_Start(s) ==
    /\ FreeSlot(matchCalls, s)
    /\ Outstanding < MaxPending
    /\ \E q \in MatchRequests, bypassCache \in BypassChoices, elapsed \in ElapsedTimes :
          LET c == [pc |-> "get", op |-> "getMatch", id1 |-> q.id1, id2 |-> q.id2,
                    f1 |-> q.f1, f2 |-> q.f2, bypass |-> bypassCache,
                    key |-> getCacheKey(q.id1, q.id2), reads |-> 0,
                    readFailed |-> FALSE, seen |-> <<>>, readAt |-> 0,
                    cached |-> <<>>, computed |-> 0, result |-> <<>>, issued |-> 0]
          IN  IF skipsCache(bypassCache)
              THEN LET m == getMatchMiss(c, elapsed)
                   IN  /\ matchCalls' = [matchCalls EXCEPT ![s] = m.call]
                       /\ redisQueue' = Append(redisQueue, m.write)
              ELSE /\ matchCalls' = [matchCalls EXCEPT ![s] = c]
                   /\ redisQueue' = Append(redisQueue,
                                           [cmd |-> "GET",
                                            key |-> c.key, by |-> s])
    /\ UNCHANGED <<now, redis, scoreVars, songVars, workload>>

\* The GET of getCachedMatch is answered and getMatch runs to its return.
getMatch_Resume(s) ==
    /\ Quiet
    /\ NextReply("GET", s)
    /\ matchCalls[s].op = "getMatch" /\ matchCalls[s].pc = "get"
    /\ \E ok \in BOOLEAN, elapsed \in ElapsedTimes :
          LET c == matchCalls[s]
              key == Head(redisQueue).key
              got == getCachedMatch(ok, redisGet(redis, key, now))
              c1 == [c EXCEPT !.reads = @ + 1, !.readFailed = ~ok,
                              !.seen = IF key \in DOMAIN redis THEN <<redis[key]>> ELSE <<>>,
                              !.readAt = now, !.cached = got.value]
          IN  /\ redis' = IF ok THEN Purge(redis, now) ELSE redis
              /\ IF got.threw
                 THEN /\ matchCalls' = [matchCalls EXCEPT ![s] = [c1 EXCEPT !.pc = "threw"]]
                      /\ redisQueue' = Tail(redisQueue)
                 ELSE IF got.value /= <<>>
                 THEN /\ matchCalls' = [matchCalls EXCEPT
                                           ![s] = [c1 EXCEPT !.pc = "returned",
                                                             !.result = got.value]]
                      /\ redisQueue' = Tail(redisQueue)
                 ELSE LET m == getMatchMiss(c1, elapsed)
                      IN  /\ matchCalls' = [matchCalls EXCEPT ![s] = m.call]
                          /\ redisQueue' = Append(Tail(redisQueue), m.write)
    /\ UNCHANGED <<now, scoreVars, songVars, workload>>

\* The SETEX of cacheMatch is answered: the entry is stored, or the error is
\* logged by cacheMatch, rethrown, and logged by getMatch's .catch.
cacheMatch_Done ==
    /\ Quiet
    /\ redisQueue /= <<>>
    /\ Head(redisQueue).cmd = "SETEX"
    /\ \E ok \in BOOLEAN :
          LET w == Head(redisQueue)
          IN  redis' = IF ok THEN redisSetex(Purge(redis, now), w.key, w.ttl, w.val, now, w.src)
                       ELSE redis
    /\ redisQueue' = Tail(redisQueue)
    /\ UNCHANGED <<now, matchCalls, scoreVars, songVars, workload>>

----------------------------------------------------------------------------
(* MatchCacheService.invalidateMatch, clearAllMatches, getCacheStats         *)

\* Faulty variant of rethrow: the catch only logs.
rethrow_Swallow(ok) == [threw |-> FALSE]

\* The try/catch of invalidateMatch, clearAllMatches and getCacheStats: a
\* failed Redis command is logged and thrown again.
rethrow(ok) == [threw |-> ~ok]

invalidateMatch_Start(s) ==
    /\ FreeSlot(matchCalls, s)
    /\ \E q \in InvalidateRequests :
          /\ matchCalls' = [matchCalls EXCEPT
                               ![s] = [pc |-> "del", op |-> "invalidateMatch",
                                       id1 |-> q[1], id2 |-> q[2],
                                       key |-> getCacheKey(q[1], q[2]),
                                       failed |-> FALSE, reply |-> 0]]
          /\ redisQueue' = Append(redisQueue,
                                  [cmd |-> "DEL", keys |-> {getCacheKey(q[1], q[2])},
                                   by |-> s])
    /\ UNCHANGED <<now, redis, scoreVars, songVars, workload>>

\* History: a write for these keys that is still to be answered when the DEL
\* is answered was sent by a getMatch call whose GET was answered, hence sent,
\* before the DEL: the call began before invalidateMatch was called.
earlyWrites(queue, keys) ==
    [i \in 1..Len(queue) |->
        IF queue[i].cmd = "SETEX" /\ queue[i].key \in keys
        THEN [queue[i] EXCEPT !.early = TRUE]
        ELSE queue[i]]

invalidateMatch_Resume(s) ==
    /\ Quiet
    /\ NextReply("DEL", s)
    /\ matchCalls[s].op = "invalidateMatch"
    /\ \E ok \in BOOLEAN :
          LET keys == Head(redisQueue).keys
          IN  /\ redis' = IF ok THEN redisDel(Purge(redis, now), keys) ELSE redis
              /\ matchCalls' = [matchCalls EXCEPT
                                   ![s].pc = IF rethrow(ok).threw THEN "threw" ELSE "returned",
                                   ![s].failed = ~ok,
                                   ![s].reply = IF ok THEN redisDelReply(redis, keys, now)
                                                ELSE 0]
              /\ redisQueue' = IF ok THEN earlyWrites(Tail(redisQueue), keys)
                               ELSE Tail(redisQueue)
    /\ UNCHANGED <<now, scoreVars, songVars, workload>>

\* KEYS match:* (every key of this store has the prefix)
redisKeys(store, t) == {k \in DOMAIN store : Live(store, k, t)}

clearAllMatches_Start(s) ==
    /\ workload = "admin"
    /\ FreeSlot(matchCalls, s)
    /\ matchCalls' = [matchCalls EXCEPT
                         ![s] = [pc |-> "keys", op |-> "clearAllMatches", result |-> 0,
                                 failed |-> FALSE]]
    /\ redisQueue' = Append(redisQueue, [cmd |-> "KEYS", by |-> s])
    /\ UNCHANGED <<now, redis, scoreVars, songVars, workload>>

clearAllMatches_Keys(s) ==
    /\ Quiet
    /\ NextReply("KEYS", s)
    /\ matchCalls[s].op = "clearAllMatches"
    /\ \E ok \in BOOLEAN :
          LET keys == redisKeys(redis, now)
          IN  /\ redis' = IF ok THEN Purge(redis, now) ELSE redis
              /\ IF rethrow(ok).threw
                 THEN /\ matchCalls' = [matchCalls EXCEPT ![s].pc = "threw",
                                                          ![s].failed = ~ok]
                      /\ redisQueue' = Tail(redisQueue)
                 ELSE IF keys = {}
                 THEN /\ matchCalls' = [matchCalls EXCEPT ![s].pc = "returned"]
                      /\ redisQueue' = Tail(redisQueue)
                 ELSE /\ matchCalls' = [matchCalls EXCEPT ![s].pc = "del"]
                      /\ redisQueue' = Append(Tail(redisQueue),
                                              [cmd |-> "DEL", keys |-> keys, by |-> s])
    /\ UNCHANGED <<now, scoreVars, songVars, workload>>

clearAllMatches_Del(s) ==
    /\ Quiet
    /\ NextReply("DEL", s)
    /\ matchCalls[s].op = "clearAllMatches"
    /\ \E ok \in BOOLEAN :
          LET keys == Head(redisQueue).keys
              deleted == Cardinality(keys \cap redisKeys(redis, now))
          IN  /\ redis' = IF ok THEN redisDel(Purge(redis, now), keys) ELSE redis
              /\ matchCalls' = [matchCalls EXCEPT
                                   ![s].pc = IF rethrow(ok).threw THEN "threw" ELSE "returned",
                                   ![s].failed = ~ok,
                                   ![s].result = IF ok THEN deleted ELSE 0]
    /\ redisQueue' = Tail(redisQueue)
    /\ UNCHANGED <<now, scoreVars, songVars, workload>>

\* The orders in which KEYS may list a set of keys.
Orders(S) ==
    {q \in [1..Cardinality(S) -> S] : \A i, j \in 1..Cardinality(S) : i /= j => q[i] /= q[j]}

\* value.length of a stored string: a fixed part plus what varies with the
\* lists of the explanation (the model keeps the members, not the characters).
valueLength(val) ==
    LET e == member(val, "explanation")
    IN  100 + Len(e.strengths) + Len(e.weaknesses)

\* listed is history: the entries that existed when KEYS was answered.
getCacheStats_Start(s) ==
    /\ workload = "admin"
    /\ FreeSlot(matchCalls, s)
    /\ matchCalls' = [matchCalls EXCEPT
                         ![s] = [pc |-> "keys", op |-> "getCacheStats", keys |-> <<>>,
                                 totalKeys |-> 0, i |-> 0, estimatedSize |-> 0,
                                 maxTtl |-> 0, oldestKey |-> <<>>, failed |-> FALSE,
                                 listed |-> EmptyMap]]
    /\ redisQueue' = Append(redisQueue, [cmd |-> "KEYS", by |-> s])
    /\ UNCHANGED <<now, redis, scoreVars, songVars, workload>>

\* keys.slice(0, Math.min(10, keys.length))
sampleKeys(keys) == SubSeq(keys, 1, Min(10, Len(keys)))

\* keys.slice(0, 100)
ttlKeys(keys) == SubSeq(keys, 1, Min(100, Len(keys)))

getCacheStats_Keys(s) ==
    /\ Quiet
    /\ NextReply("KEYS", s)
    /\ matchCalls[s].op = "getCacheStats"
    /\ \E ok \in BOOLEAN, keys \in Orders(redisKeys(redis, now)) :
          /\ redis' = IF ok THEN Purge(redis, now) ELSE redis
          /\ IF rethrow(ok).threw
             THEN /\ matchCalls' = [matchCalls EXCEPT ![s].pc = "threw", ![s].failed = ~ok]
                  /\ redisQueue' = Tail(redisQueue)
             ELSE IF Len(keys) = 0
             THEN /\ matchCalls' = [matchCalls EXCEPT ![s].pc = "returned"]
                  /\ redisQueue' = Tail(redisQueue)
             ELSE /\ matchCalls' = [matchCalls EXCEPT ![s].pc = "get", ![s].keys = keys,
                                                      ![s].totalKeys = Len(keys),
                                                      ![s].listed = Purge(redis, now),
                                                      ![s].i = 1]
                  /\ redisQueue' = Append(Tail(redisQueue),
                                          [cmd |-> "GET", key |-> keys[1], by |-> s])
    /\ UNCHANGED <<now, scoreVars, songVars, workload>>

\* One GET of the sampling loop is answered.
getCacheStats_Get(s) ==
    /\ Quiet
    /\ NextReply("GET", s)
    /\ matchCalls[s].op = "getCacheStats"
    /\ \E ok \in BOOLEAN :
          LET c == matchCalls[s]
              value == redisGet(redis, c.keys[c.i], now)
              sum == IF value /= <<>> THEN c.estimatedSize + valueLength(value[1])
                     ELSE c.estimatedSize
              sample == sampleKeys(c.keys)
          IN  /\ redis' = IF ok THEN Purge(redis, now) ELSE redis
              /\ IF rethrow(ok).threw
                 THEN /\ matchCalls' = [matchCalls EXCEPT ![s].pc = "threw",
                                                          ![s].failed = ~ok]
                      /\ redisQueue' = Tail(redisQueue)
                 ELSE IF c.i < Len(sample)
                 THEN /\ matchCalls' = [matchCalls EXCEPT ![s].estimatedSize = sum,
                                                          ![s].i = c.i + 1]
                      /\ redisQueue' = Append(Tail(redisQueue),
                                              [cmd |-> "GET", key |-> c.keys[c.i + 1],
                                               by |-> s])
                 ELSE /\ matchCalls' = [matchCalls EXCEPT
                                           ![s].estimatedSize =
                                               MathRound(sum * Len(c.keys), Len(sample)),
                                           ![s].pc = "ttl", ![s].i = 1]
                      /\ redisQueue' = Append(Tail(redisQueue),
                                              [cmd |-> "TTL", key |-> c.keys[1], by |-> s])
    /\ UNCHANGED <<now, scoreVars, songVars, workload>>

\* One TTL of the oldest-key loop is answered (-2: the key does not exist).
getCacheStats_Ttl(s) ==
    /\ Quiet
    /\ NextReply("TTL", s)
    /\ matchCalls[s].op = "getCacheStats"
    /\ \E ok \in BOOLEAN :
          LET c == matchCalls[s]
              key == c.keys[c.i]
              ttl == IF Live(redis, key, now) THEN redisTtl(redis, key, now) ELSE -2
              better == ttl > c.maxTtl
              c1 == [c EXCEPT !.maxTtl = IF better THEN ttl ELSE @,
                              !.oldestKey = IF better THEN <<key>> ELSE @]
          IN  /\ redis' = IF ok THEN Purge(redis, now) ELSE redis
              /\ IF rethrow(ok).threw
                 THEN /\ matchCalls' = [matchCalls EXCEPT ![s].pc = "threw",
                                                          ![s].failed = ~ok]
                      /\ redisQueue' = Tail(redisQueue)
                 ELSE IF c.i < Len(ttlKeys(c.keys))
                 THEN /\ matchCalls' = [matchCalls EXCEPT ![s] = [c1 EXCEPT !.i = c.i + 1]]
                      /\ redisQueue' = Append(Tail(redisQueue),
                                              [cmd |-> "TTL", key |-> c.keys[c.i + 1],
                                               by |-> s])
                 ELSE /\ matchCalls' = [matchCalls EXCEPT ![s] = [c1 EXCEPT !.pc = "returned"]]
                      /\ redisQueue' = Tail(redisQueue)
    /\ UNCHANGED <<now, scoreVars, songVars, workload>>

----------------------------------------------------------------------------
(* SpotifyService: the source of tracks and audio features.  A request is    *)
(* answered with data, or fails with the AppError handleApiError makes of    *)
(* the HTTP failure.                                                         *)

SpotifyErrors == {"NOT_FOUND", "RATE_LIMIT_EXCEEDED", "SPOTIFY_TIMEOUT"}

SpotifyReplies ==
    {[ok |-> TRUE, error |-> ""]} \cup {[ok |-> FALSE, error |-> e] : e \in SpotifyErrors}

\* What Spotify holds for a track id.
SpotifyTrack(id) == [id |-> id, name |-> <<116>> \o id]

SpotifyAudioFeatures(id) == [id |-> id, tempo |-> 100 + id[1]]

\* The items a search may list.
SearchResults == {<<>>, <<SongIdA, SongIdB>>}

\* 30 days in seconds (thirtyDays and CACHE_TTL_MS are the same in ms)
SONG_TTL == 30 * 24 * 60 * 60

\* Faulty variant of convertToCachedSong: the song expires after 7 days.
convertToCachedSong_SevenDays(track, audioFeatures, t) ==
    [id |-> track.id, name |-> track.name, audioFeatures |-> audioFeatures,
     cachedAt |-> t, expiresAt |-> t + 7 * 24 * 60 * 60, platform |-> "spotify"]

\* convertToCachedSong once the audio features are there; t is Date.now().
convertToCachedSong(track, audioFeatures, t) ==
    [id |-> track.id, name |-> track.name, audioFeatures |-> audioFeatures,
     cachedAt |-> t, expiresAt |-> t + SONG_TTL, platform |-> "spotify"]

----------------------------------------------------------------------------
(* SongCacheService.  songCache is the song_cache table, one row per         *)
(* (platform, songId); the platform is always 'spotify'.  Each Prisma query  *)
(* of a call is one step: it runs, or fails with an error.                   *)

\* JSON.stringify(song) / JSON.parse(cached.data) as CachedSong
songStringify(song) ==
    <<<<"id", song.id>>, <<"name", song.name>>,
      <<"audioFeatures", <<<<"id", song.audioFeatures.id>>,
                           <<"tempo", song.audioFeatures.tempo>>>>>>,
      <<"cachedAt", song.cachedAt>>, <<"expiresAt", song.expiresAt>>,
      <<"platform", song.platform>>>>

songParse(text) ==
    [id |-> member(text, "id"), name |-> member(text, "name"),
     audioFeatures |-> [id |-> member(member(text, "audioFeatures"), "id"),
                        tempo |-> member(member(text, "audioFeatures"), "tempo")],
     cachedAt |-> member(text, "cachedAt"), expiresAt |-> member(text, "expiresAt"),
     platform |-> member(text, "platform")]

\* Faulty variant of songExpired: a row is expired from its expiry time on.
songExpired_Inclusive(row, t) == row.expiresAt <= t

\* cached.expiresAt.getTime() < Date.now()
songExpired(row, t) == row.expiresAt < t

\* getCachedSong up to its return or to the delete of an expired row: the query
\* failed (caught, null), found nothing (null), found an expired row, or found
\* a row to parse.
getCachedSong(ok, store, songId, t) ==
    IF ~ok THEN [threw |-> FALSE, expired |-> FALSE, value |-> <<>>]
    ELSE IF songId \notin DOMAIN store
    THEN [threw |-> FALSE, expired |-> FALSE, value |-> <<>>]
    ELSE IF songExpired(store[songId], t)
    THEN [threw |-> FALSE, expired |-> TRUE, value |-> <<>>]
    ELSE [threw |-> FALSE, expired |-> FALSE, value |-> <<songParse(store[songId].data)>>]

\* The upsert of cacheSong: the row is created or replaced, or the error is
\* logged and not thrown.
cacheSong(ok, store, song) ==
    [threw |-> FALSE,
     store |-> IF ok
               THEN [k \in DOMAIN store \cup {song.id} |->
                        IF k = song.id
                        THEN [data |-> songStringify(song), title |-> song.name,
                              cachedAt |-> song.cachedAt, expiresAt |-> song.expiresAt]
                        ELSE store[k]]
               ELSE store]

\* The delete of deleteCachedSong: the row is gone, or the error (the query
\* failed, or there was no such row) is logged and not thrown.
deleteCachedSong(ok, store, songId) ==
    [threw |-> FALSE,
     store |-> IF ok THEN [k \in DOMAIN store \ {songId} |-> store[k]] ELSE store]

\* Faulty variant of searchSongsCatch: the error is thrown again.
searchSongsCatch_Rethrow(error) == [threw |-> TRUE, error |-> error]

\* The catch around one track of searchSongs: the error is logged and the track
\* skipped.
searchSongsCatch(error) == [threw |-> FALSE, error |-> error]

\* The songs of the workload.
SongRequestIds ==
    IF workload = "song" THEN {SongIdA}
    ELSE IF workload = "catalog" THEN {SongIdB}
    ELSE {}

SongCall(op, id, pc) ==
    [pc |-> pc, op |-> op, id |-> id, tracks |-> <<>>, i |-> 0, songs |-> <<>>,
     song |-> <<>>, result |-> <<>>, error |-> "",
     found |-> <<>>, readAt |-> 0, findFailed |-> FALSE, deletes |-> 0,
     trackCalls |-> 0, featureCalls |-> 0, fetchedAt |-> 0,
     storeFailed |-> FALSE, failures |-> <<>>, skipped |-> <<>>, stored |-> <<>>,
     searchCalls |-> 0, writeFailed |-> FALSE]

\* The song a getCachedSong / convertToCachedSong / cacheSong of the call is about.
currentId(c) == IF c.op = "searchSongs" THEN c.tracks[c.i] ELSE c.id

\* searchSongs goes on to its next track, or returns.
nextTrack(c) ==
    IF c.i < Len(c.tracks) THEN [c EXCEPT !.pc = "find", !.i = @ + 1]
    ELSE [c EXCEPT !.pc = "returned",
                   !.result = <<[songs |-> c.songs, total |-> Len(c.tracks)]>>]

\* Faulty variant of haveSong: searchSongs puts the song first (unshift).
haveSong_Unshift(c, song) ==
    IF c.op = "searchSongs" THEN nextTrack([c EXCEPT !.songs = <<song>> \o @])
    ELSE [c EXCEPT !.pc = "returned", !.result = <<song>>]

\* The call has its song (from the cache or freshly cached): getSongById
\* returns it, searchSongs pushes it.
haveSong(c, song) ==
    IF c.op = "searchSongs" THEN nextTrack([c EXCEPT !.songs = Append(@, song)])
    ELSE [c EXCEPT !.pc = "returned", !.result = <<song>>]

\* The cache had nothing for the call: getSongById asks for the track,
\* searchSongs (which has it) converts it.
missSong(c) ==
    IF c.op = "searchSongs" THEN [c EXCEPT !.pc = "features"]
    ELSE [c EXCEPT !.pc = "track"]

getSongById_Start(s) ==
    /\ FreeSlot(songCalls, s)
    /\ \E id \in SongRequestIds :
          songCalls' = [songCalls EXCEPT ![s] = SongCall("getSongById", id, "find")]
    /\ UNCHANGED <<now, songCache, scoreVars, matchVars, workload>>

searchSongs_Start(s) ==
    /\ workload = "catalog"
    /\ FreeSlot(songCalls, s)
    /\ songCalls' = [songCalls EXCEPT ![s] = SongCall("searchSongs", <<>>, "search")]
    /\ UNCHANGED <<now, songCache, scoreVars, matchVars, workload>>

\* spotifyService.searchTracks is answered.
searchTracks_Done(s) ==
    /\ Quiet
    /\ songCalls[s].pc = "search"
    /\ \E reply \in SpotifyReplies, items \in SearchResults :
          LET c == [songCalls[s] EXCEPT !.searchCalls = @ + 1]
          IN  songCalls' = [songCalls EXCEPT ![s] =
                  IF ~reply.ok
                  THEN [c EXCEPT !.pc = "threw", !.error = reply.error,
                                 !.failures = Append(@, [call |-> "searchTracks",
                                                         error |-> reply.error])]
                  ELSE nextTrack([c EXCEPT !.tracks = items])]
    /\ UNCHANGED <<now, songCache, scoreVars, matchVars, workload>>

\* The findUnique of getCachedSong is answered.
getCachedSong_Find(s) ==
    /\ Quiet
    /\ songCalls[s].pc = "find"
    /\ \E ok \in BOOLEAN :
          LET c == songCalls[s]
              id == currentId(c)
              got == getCachedSong(ok, songCache, id, now)
              c1 == [c EXCEPT !.found = IF id \in DOMAIN songCache
                                        THEN <<songCache[id]>> ELSE <<>>,
                              !.readAt = now, !.findFailed = ~ok,
                              !.storeFailed = @ \/ ~ok]
          IN  songCalls' = [songCalls EXCEPT ![s] =
                  IF got.threw THEN [c1 EXCEPT !.pc = "threw", !.error = "STORE"]
                  ELSE IF got.expired THEN [c1 EXCEPT !.pc = "delete"]
                  ELSE IF got.value /= <<>> THEN haveSong(c1, got.value[1])
                  ELSE missSong(c1)]
    /\ UNCHANGED <<now, songCache, scoreVars, matchVars, workload>>

\* The delete of deleteCachedSong is answered: getCachedSong returns null, and
\* invalidateSong returns.
deleteCachedSong_Done(s) ==
    /\ Quiet
    /\ songCalls[s].pc = "delete"
    /\ \E ok \in BOOLEAN :
          LET c == songCalls[s]
              id == currentId(c)
              done == deleteCachedSong(ok /\ id \in DOMAIN songCache, songCache, id)
              c1 == [c EXCEPT !.deletes = @ + 1, !.storeFailed = @ \/ ~ok]
          IN  /\ songCache' = done.store
              /\ songCalls' = [songCalls EXCEPT ![s] =
                     IF done.threw THEN [c1 EXCEPT !.pc = "threw", !.error = "STORE"]
                     ELSE IF c.op = "invalidateSong" THEN [c1 EXCEPT !.pc = "returned"]
                     ELSE missSong(c1)]
    /\ UNCHANGED <<now, scoreVars, matchVars, workload>>

\* spotifyService.getTrack is answered.
getTrack_Done(s) ==
    /\ Quiet
    /\ songCalls[s].pc = "track"
    /\ \E reply \in SpotifyReplies :
          LET c == [songCalls[s] EXCEPT !.trackCalls = @ + 1]
          IN  songCalls' = [songCalls EXCEPT ![s] =
                  IF ~reply.ok
                  THEN [c EXCEPT !.pc = "threw", !.error = reply.error,
                                 !.failures = Append(@, [call |-> "getTrack",
                                                         error |-> reply.error])]
                  ELSE [c EXCEPT !.pc = "features"]]
    /\ UNCHANGED <<now, songCache, scoreVars, matchVars, workload>>

\* The getAudioFeatures of convertToCachedSong is answered: the song is built
\* and cacheSong sends its upsert, or the error leaves getSongById and is caught
\* by searchSongs.
getAudioFeatures_Done(s) ==
    /\ Quiet
    /\ songCalls[s].pc = "features"
    /\ \E reply \in SpotifyReplies :
          LET c == [songCalls[s] EXCEPT !.featureCalls = @ + 1]
              id == currentId(c)
              failed == [c EXCEPT !.failures = Append(@, [call |-> "getAudioFeatures",
                                                          error |-> reply.error])]
              caught == searchSongsCatch(reply.error)
          IN  songCalls' = [songCalls EXCEPT ![s] =
                  IF reply.ok
                  THEN [c EXCEPT !.pc = "upsert", !.fetchedAt = now,
                                 !.song = <<convertToCachedSong(SpotifyTrack(id),
                                                                SpotifyAudioFeatures(id),
                                                                now)>>]
                  ELSE IF c.op = "searchSongs" /\ ~caught.threw
                  THEN nextTrack([failed EXCEPT !.skipped = Append(@, id)])
                  ELSE [failed EXCEPT !.pc = "threw", !.error = reply.error]]
    /\ UNCHANGED <<now, songCache, scoreVars, matchVars, workload>>

\* The upsert of cacheSong is answered.
cacheSong_Done(s) ==
    /\ Quiet
    /\ songCalls[s].pc = "upsert"
    /\ \E ok \in BOOLEAN :
          LET c == songCalls[s]
              song == c.song[1]
              done == cacheSong(ok, songCache, song)
              c1 == [c EXCEPT !.storeFailed = @ \/ ~ok, !.writeFailed = @ \/ ~ok,
                              !.stored = IF ok THEN <<done.store[song.id]>> ELSE <<>>]
          IN  /\ songCache' = done.store
              /\ songCalls' = [songCalls EXCEPT ![s] =
                     IF done.threw THEN [c1 EXCEPT !.pc = "threw", !.error = "STORE"]
                     ELSE haveSong(c1, song)]
    /\ UNCHANGED <<now, scoreVars, matchVars, workload>>

invalidateSong_Start(s) ==
    /\ workload \in {"song", "catalog"}
    /\ FreeSlot(songCalls, s)
    /\ \E id \in SongRequestIds :
          songCalls' = [songCalls EXCEPT ![s] = SongCall("invalidateSong", id, "delete")]
    /\ UNCHANGED <<now, songCache, scoreVars, matchVars, workload>>

\* Faulty variant of cleanExpiredCache: the filter is lte.
cleanExpiredCache_Lte(ok, store, t) ==
    LET expired == {k \in DOMAIN store : store[k].expiresAt <= t}
    IN  [threw |-> FALSE,
         store |-> IF ok THEN [k \in DOMAIN store \ expired |-> store[k]] ELSE store,
         count |-> IF ok THEN Cardinality(expired) ELSE 0]

\* deleteMany where expiresAt < new Date(): the rows left, or the error caught.
\* t is the time new Date() gave when the call was made (readAt).
cleanExpiredCache(ok, store, t) ==
    LET expired == {k \in DOMAIN store : store[k].expiresAt < t}
    IN  [threw |-> FALSE,
         store |-> IF ok THEN [k \in DOMAIN store \ expired |-> store[k]] ELSE store,
         count |-> IF ok THEN Cardinality(expired) ELSE 0]

cleanExpiredCache_Start(s) ==
    /\ workload \in {"song", "catalog"}
    /\ FreeSlot(songCalls, s)
    /\ songCalls' = [songCalls EXCEPT
                        ![s] = [SongCall("cleanExpiredCache", <<>>, "sweep")
                                   EXCEPT !.readAt = now]]
    /\ UNCHANGED <<now, songCache, scoreVars, matchVars, workload>>

cleanExpiredCache_Done(s) ==
    /\ Quiet
    /\ songCalls[s].pc = "sweep"
    /\ \E ok \in BOOLEAN :
          LET done == cleanExpiredCache(ok, songCache, songCalls[s].readAt)
          IN  /\ songCache' = done.store
              /\ songCalls' = [songCalls EXCEPT
                                  ![s].pc = IF done.threw THEN "threw" ELSE "returned",
                                  ![s].result = <<done.count>>,
                                  ![s].storeFailed = ~ok]
    /\ UNCHANGED <<now, scoreVars, matchVars, workload>>

\* deleteMany({}): the table emptied, or the error caught.
clearAllCache(ok, store) ==
    [threw |-> FALSE,
     store |-> IF ok THEN EmptyMap ELSE store,
     count |-> IF ok THEN Cardinality(DOMAIN store) ELSE 0]

clearAllCache_Start(s) ==
    /\ workload = "catalog"
    /\ FreeSlot(songCalls, s)
    /\ songCalls' = [songCalls EXCEPT ![s] = SongCall("clearAllCache", <<>>, "clear")]
    /\ UNCHANGED <<now, songCache, scoreVars, matchVars, workload>>

clearAllCache_Done(s) ==
    /\ Quiet
    /\ songCalls[s].pc = "clear"
    /\ \E ok \in BOOLEAN :
          LET done == clearAllCache(ok, songCache)
          IN  /\ songCache' = done.store
              /\ songCalls' = [songCalls EXCEPT
                                  ![s].pc = IF done.threw THEN "threw" ELSE "returned",
                                  ![s].result = <<done.count>>,
                                  ![s].storeFailed = ~ok]
    /\ UNCHANGED <<now, scoreVars, matchVars, workload>>

\* SongCacheService.getCacheStats: the three counts of the Promise.all, or the
\* zeros of the catch.
songCacheStats(ok, store, t) ==
    IF ok
    THEN [threw |-> FALSE, totalCached |-> Cardinality(DOMAIN store),
          expired |-> Cardinality({k \in DOMAIN store : store[k].expiresAt < t}),
          byPlatform |-> <<Cardinality(DOMAIN store)>>]
    ELSE [threw |-> FALSE, totalCached |-> 0, expired |-> 0, byPlatform |-> <<>>]

songCacheStats_Start(s) ==
    /\ workload = "catalog"
    /\ FreeSlot(songCalls, s)
    /\ songCalls' = [songCalls EXCEPT
                        ![s] = [SongCall("getCacheStats", <<>>, "count")
                                   EXCEPT !.readAt = now]]
    /\ UNCHANGED <<now, songCache, scoreVars, matchVars, workload>>

songCacheStats_Done(s) ==
    /\ Quiet
    /\ songCalls[s].pc = "count"
    /\ \E ok \in BOOLEAN :
          LET stats == songCacheStats(ok, songCache, songCalls[s].readAt)
          IN  songCalls' = [songCalls EXCEPT
                               ![s].pc = IF stats.threw THEN "threw" ELSE "returned",
                               ![s].result = <<stats>>,
                               ![s].storeFailed = ~ok]
    /\ UNCHANGED <<now, songCache, scoreVars, matchVars, workload>>

----------------------------------------------------------------------------
(* The clock.                                                                *)

\* How many whole TTLs of the service under load a run lasts (it ends half a
\* TTL after the last, so that an entry written at the start is outlived).
MaxTtls == 1

ServiceTtl == IF workload \in {"song", "catalog"} THEN SONG_TTL ELSE CACHE_TTL

Horizon == MaxTtls * ServiceTtl + ServiceTtl \div 2

\* Time passes in steps of half a TTL and a whole TTL.  The workloads with two
\* calls at a time are about interleaving, not about time: "pair" runs within
\* one instant, and in "song" and "refresh" time passes only while no call is
\* in flight.  "drift" and "colons" are about what a later request is given,
\* within one instant.
Tick ==
    /\ Quiet
    /\ workload \notin {"pair", "drift", "colons"}
    /\ workload = "song" => \A s \in Slots : songCalls[s].pc = "idle"
    /\ workload = "refresh" => \A s \in Slots : matchCalls[s].pc = "idle"
    /\ \E d \in {ServiceTtl \div 2, ServiceTtl} :
          /\ now + d <= Horizon
          /\ now' = now + d
    /\ UNCHANGED <<redis, matchCalls, redisQueue, scoreVars, songVars, workload>>

\* The caller takes the outcome of a settled MatchCacheService call.
matchCall_Settle(s) ==
    /\ Settled(matchCalls[s])
    /\ matchCalls' = [matchCalls EXCEPT ![s] = IdleCall]
    /\ UNCHANGED <<now, redis, redisQueue, scoreVars, songVars, workload>>

\* The caller takes the outcome of a settled SongCacheService call.
songCall_Settle(s) ==
    /\ Settled(songCalls[s])
    /\ songCalls' = [songCalls EXCEPT ![s] = IdleCall]
    /\ UNCHANGED <<now, songCache, scoreVars, matchVars, workload>>

----------------------------------------------------------------------------
(* Spec: the two caches under their workloads.                               *)

Init ==
    /\ features1 = FeaturesA
    /\ features2 = FeaturesB
    /\ matchResult = <<>>
    /\ InitCaches
    /\ workload \in Workloads

Next ==
    \/ \E s \in Slots : matchCall_Settle(s)
    \/ \E s \in Slots : songCall_Settle(s)
    \/ \E s \in Slots : getMatch_Start(s)
    \/ \E s \in Slots : getMatch_Resume(s)
    \/ cacheMatch_Done
    \/ \E s \in Slots : invalidateMatch_Start(s)
    \/ \E s \in Slots : invalidateMatch_Resume(s)
    \/ \E s \in Slots : clearAllMatches_Start(s)
    \/ \E s \in Slots : clearAllMatches_Keys(s)
    \/ \E s \in Slots : clearAllMatches_Del(s)
    \/ \E s \in Slots : getCacheStats_Start(s)
    \/ \E s \in Slots : getCacheStats_Keys(s)
    \/ \E s \in Slots : getCacheStats_Get(s)
    \/ \E s \in Slots : getCacheStats_Ttl(s)
    \/ \E s \in Slots : getSongById_Start(s)
    \/ \E s \in Slots : searchSongs_Start(s)
    \/ \E s \in Slots : searchTracks_Done(s)
    \/ \E s \in Slots : getCachedSong_Find(s)
    \/ \E s \in Slots : deleteCachedSong_Done(s)
    \/ \E s \in Slots : getTrack_Done(s)
    \/ \E s \in Slots : getAudioFeatures_Done(s)
    \/ \E s \in Slots : cacheSong_Done(s)
    \/ \E s \in Slots : invalidateSong_Start(s)
    \/ \E s \in Slots : cleanExpiredCache_Start(s)
    \/ \E s \in Slots : cleanExpiredCache_Done(s)
    \/ \E s \in Slots : clearAllCache_Start(s)
    \/ \E s \in Slots : clearAllCache_Done(s)
    \/ \E s \in Slots : songCacheStats_Start(s)
    \/ \E s \in Slots : songCacheStats_Done(s)
    \/ Tick

Spec == Init /\ [][Next]_vars

----------------------------------------------------------------------------
(* Properties of the two caches, checked under Spec.                        *)

\* The results calculateMatch can give for a pair of the vectors getMatch is
\* called with.
ComputedTable ==
    [f1 \in CallFeatures, f2 \in CallFeatures |->
        {calculateMatch(f1, f2, e) : e \in ElapsedTimes}]

ComputedBy(f1, f2) == ComputedTable[f1, f2]

\* The calls of an operation whose outcome is about to be taken.
SettledMatch(op) == {s \in Slots : Settled(matchCalls[s]) /\ matchCalls[s].op = op}

SettledSong(op) == {s \in Slots : Settled(songCalls[s]) /\ songCalls[s].op = op}

MatchAdminOps == {"invalidateMatch", "clearAllMatches", "getCacheStats"}

SongOps ==
    {"getSongById", "searchSongs", "invalidateSong", "cleanExpiredCache",
     "getCacheStats", "clearAllCache"}

\* The song getSongById builds from what Spotify holds, fetched at time t.
FetchedSong(id, t) ==
    [id |-> id, name |-> SpotifyTrack(id).name, audioFeatures |-> SpotifyAudioFeatures(id),
     cachedAt |-> t, expiresAt |-> t + 2592000, platform |-> "spotify"]

\* The answer of a SETEX never touches a call, and leaves the store as it was
\* or with the entry written.
C1_WriteOutcome ==
    (redisQueue /= <<>> /\ Head(redisQueue).cmd = "SETEX" /\ redisQueue' = Tail(redisQueue))
        => /\ matchCalls' = matchCalls
           /\ LET w == Head(redisQueue)
              IN  \/ redis' = redis
                  \/ redis' = redisSetex(Purge(redis, now), w.key, w.ttl, w.val, now, w.src)

C1_Calls ==
    /\ \A s \in SettledMatch("getMatch") :
          LET c == matchCalls[s]
          IN  /\ c.pc = "returned"
              /\ c.result /= <<>>
              /\ c.readFailed => (c.cached = <<>> /\ c.computed = 1)
              /\ c.computed = 1 => c.result[1] \in ComputedBy(c.f1, c.f2)
    /\ \A s \in SettledSong("getSongById") :
          LET c == songCalls[s]
          IN  c.failures = <<>> =>
                 /\ c.pc = "returned"
                 /\ c.findFailed => (c.trackCalls = 1 /\ c.featureCalls = 1)
                 /\ c.trackCalls = 1 => c.result = <<FetchedSong(c.id, c.fetchedAt)>>

\* C1: whichever store reads and writes fail, getMatch returns the MatchResult
\* (computed when the read failed), getSongById returns the record fetched from
\* Spotify unless Spotify itself failed, and a failed write changes nothing.
C1_StoreFailureNeverBreaks == [] C1_Calls /\ [][C1_WriteOutcome]_vars

\* A getMatch whose read failed returns the result it computed; its write is
\* pending.
C1_Witness ==
    \E s \in SettledMatch("getMatch") :
        /\ matchCalls[s].readFailed
        /\ matchCalls[s].pc = "returned"
        /\ matchCalls[s].result[1] \in ComputedBy(matchCalls[s].f1, matchCalls[s].f2)
        /\ \E i \in 1..Len(redisQueue) : redisQueue[i].cmd = "SETEX"

\* C2 (as stated): whenever Spotify fails during getSongById or searchSongs the
\* call throws that error.
C2_UpstreamErrorsPropagate ==
    \A s \in SettledSong("getSongById") \cup SettledSong("searchSongs") :
        LET c == songCalls[s]
        IN  c.failures /= <<>> => (c.pc = "threw" /\ c.error = c.failures[1].error)

\* The ids of a sequence of songs / the sequence without the ids in `out`.
RECURSIVE Without(_, _)
Without(ids, out) ==
    IF ids = <<>> THEN <<>>
    ELSE IF \E i \in 1..Len(out) : out[i] = Head(ids) THEN Without(Tail(ids), out)
    ELSE <<Head(ids)>> \o Without(Tail(ids), out)

\* C2 (amended): a Spotify failure during getSongById, or of the query of
\* searchSongs, is thrown to the caller unchanged; a failure for one track of a
\* search is not: the track is left out and searchSongs returns the others.
C2_UpstreamErrors ==
    /\ \A s \in SettledSong("getSongById") :
          LET c == songCalls[s]
          IN  /\ c.failures /= <<>> =>
                    (c.pc = "threw" /\ Len(c.failures) = 1 /\ c.error = c.failures[1].error)
              /\ c.pc = "threw" => c.failures /= <<>>
    /\ \A s \in SettledSong("searchSongs") :
          LET c == songCalls[s]
              queryFailed == \E i \in 1..Len(c.failures) : c.failures[i].call = "searchTracks"
          IN  /\ queryFailed => (c.pc = "threw" /\ c.error = c.failures[1].error)
              /\ ~queryFailed =>
                    /\ c.pc = "returned"
                    /\ Len(c.skipped) = Len(c.failures)
                    /\ [i \in 1..Len(c.result[1].songs) |-> c.result[1].songs[i].id]
                          = Without(c.tracks, c.skipped)

\* A search in which the audio features of one track failed returns the other.
C2_Witness ==
    \E s \in SettledSong("searchSongs") :
        /\ songCalls[s].pc = "returned"
        /\ Len(songCalls[s].skipped) = 1
        /\ Len(songCalls[s].result[1].songs) = 1

\* C3 (as stated): no operation of either cache throws because a store command
\* failed.
C3_NoStoreFailurePropagates ==
    /\ \A s \in SettledMatch("getMatch") : matchCalls[s].pc = "returned"
    /\ \A op \in MatchAdminOps : \A s \in SettledMatch(op) :
          matchCalls[s].failed => matchCalls[s].pc = "returned"
    /\ \A op \in SongOps : \A s \in SettledSong(op) :
          (songCalls[s].storeFailed /\ songCalls[s].failures = <<>>)
              => songCalls[s].pc = "returned"

\* C3 (amended): getMatch and every SongCacheService operation return normally
\* when a store command fails; invalidateMatch, clearAllMatches and
\* getCacheStats of MatchCacheService log the failure and throw it.
C3_StoreFailures ==
    /\ \A s \in SettledMatch("getMatch") : matchCalls[s].pc = "returned"
    /\ \A op \in MatchAdminOps : \A s \in SettledMatch(op) :
          matchCalls[s].failed <=> matchCalls[s].pc = "threw"
    /\ \A op \in SongOps : \A s \in SettledSong(op) :
          /\ (songCalls[s].storeFailed /\ songCalls[s].failures = <<>>)
                => songCalls[s].pc = "returned"
          /\ songCalls[s].pc = "threw" => songCalls[s].failures /= <<>>

\* An invalidateMatch whose DEL failed has thrown.
C3_Witness ==
    \E s \in SettledMatch("invalidateMatch") :
        matchCalls[s].failed /\ matchCalls[s].pc = "threw"

\* A non-bypass getMatch whose GET was answered while the entry written for the
\* same inputs was younger than its TTL.
ReadsFresh(c) ==
    /\ ~c.bypass /\ ~c.readFailed
    /\ c.seen /= <<>>
    /\ c.readAt - c.seen[1].at < CACHE_TTL
    /\ c.seen[1].src = <<c.f1, c.f2>>

\* C4: every entry holds the result calculateMatch gave for the inputs of the
\* call that wrote it; a non-bypass getMatch for the same pair and inputs that
\* reads it before the TTL elapses returns that result and computes nothing.
C4_RoundTrip ==
    /\ \A k \in DOMAIN redis :
          \E r \in ComputedBy(redis[k].src[1], redis[k].src[2]) :
              redis[k].val = JsonStringify(r)
    /\ \A s \in SettledMatch("getMatch") :
          LET c == matchCalls[s]
          IN  ReadsFresh(c) =>
                 /\ c.pc = "returned"
                 /\ JsonStringify(c.result[1]) = c.seen[1].val
                 /\ c.result[1] \in ComputedBy(c.f1, c.f2)
                 /\ c.computed = 0 /\ c.issued = 0

\* A getMatch served from the entry an earlier getMatch wrote.
C4_Witness ==
    \E s \in SettledMatch("getMatch") :
        /\ ReadsFresh(matchCalls[s])
        /\ matchCalls[s].computed = 0
        /\ matchCalls[s].result[1].processingTime = 1

\* A non-bypass getMatch whose GET was answered after the TTL of the entry it
\* found had elapsed.
ReadsLapsed(c) ==
    /\ ~c.bypass /\ ~c.readFailed
    /\ c.seen /= <<>>
    /\ c.readAt - c.seen[1].at > 604800

\* C5: every write is a SETEX with a TTL of 7 days (604800 s) and every entry
\* expires 7 days after it was written; a non-bypass getMatch that reads a pair
\* after the TTL has elapsed gets nothing from the cache, computes the result
\* and sends a new write with a 7-day TTL.
C5_Expiry ==
    /\ \A i \in 1..Len(redisQueue) :
          redisQueue[i].cmd = "SETEX" => redisQueue[i].ttl = 604800
    /\ \A k \in DOMAIN redis : redis[k].exp - redis[k].at = 604800
    /\ \A s \in SettledMatch("getMatch") :
          LET c == matchCalls[s]
          IN  ReadsLapsed(c) =>
                 /\ c.pc = "returned"
                 /\ c.cached = <<>>
                 /\ c.computed = 1 /\ c.issued = 1
                 /\ c.result[1] \in ComputedBy(c.f1, c.f2)
                 /\ \E i \in 1..Len(redisQueue) :
                       /\ redisQueue[i].cmd = "SETEX"
                       /\ redisQueue[i].key = c.key
                       /\ redisQueue[i].val = JsonStringify(c.result[1])
                       /\ redisQueue[i].ttl = 604800

\* A getMatch that found the pair's entry dead and computed again.
C5_Witness ==
    \E s \in SettledMatch("getMatch") :
        /\ ReadsLapsed(matchCalls[s])
        /\ matchCalls[s].computed = 1
        /\ matchCalls[s].result /= <<>>

\* Song ids of up to two characters over 'a', 'b' and the separator ':'.
KeyIds ==
    LET chars == {58, 97, 98}
    IN  {<<x>> : x \in chars} \cup {<<x, y>> : x \in chars, y \in chars}

KeysSymmetric == \A a \in KeyIds, b \in KeyIds : getCacheKey(a, b) = getCacheKey(b, a)

\* C6: getCacheKey(A, B) = getCacheKey(B, A) for any two ids, and the key a
\* getMatch or invalidateMatch uses is the key of its ids in the other order.
C6_KeySymmetry ==
    /\ KeysSymmetric
    /\ \A op \in {"getMatch", "invalidateMatch"} : \A s \in SettledMatch(op) :
          matchCalls[s].key = getCacheKey(matchCalls[s].id2, matchCalls[s].id1)

\* A getMatch for (b, a) is served from the entry a getMatch for (a, b) wrote.
C6_Witness ==
    \E s \in SettledMatch("getMatch") :
        LET c == matchCalls[s]
        IN  /\ c.id1 = SongIdB /\ c.id2 = SongIdA
            /\ c.computed = 0
            /\ c.seen /= <<>>
            /\ c.seen[1].src = <<FeaturesA, FeaturesB>>
            /\ c.result = <<JsonParse(c.seen[1].val)>>

\* A getSongById whose findUnique was answered with a row.
FoundRow(c) == ~c.findFailed /\ c.found /= <<>>

\* A getSongById that returned the stored record without asking Spotify.
ServedFromCache(c) ==
    /\ FoundRow(c)
    /\ c.pc = "returned"
    /\ c.result = <<songParse(c.found[1].data)>>
    /\ c.trackCalls = 0 /\ c.featureCalls = 0

\* C9 (as stated): getSongById serves a stored record only when its expiresAt
\* is strictly greater than now; a record with expiresAt <= now is deleted and
\* the call proceeds as a miss.
C9_HitOnlyStrictlyBeforeExpiry ==
    \A s \in SettledSong("getSongById") :
        LET c == songCalls[s]
        IN  /\ ServedFromCache(c) => c.found[1].expiresAt > c.readAt
            /\ (FoundRow(c) /\ c.found[1].expiresAt <= c.readAt)
                  => (c.deletes = 1 /\ c.trackCalls = 1)

\* C9 (amended): getSongById serves a stored record exactly when its expiresAt
\* is not less than now (expiresAt = now is still a hit); a record with
\* expiresAt < now is expired: its delete is attempted and the call goes on to
\* Spotify as on a miss.  No record with expiresAt < now is returned.
C9_HitCondition ==
    \A s \in SettledSong("getSongById") :
        LET c == songCalls[s]
        IN  FoundRow(c) =>
               /\ c.found[1].expiresAt >= c.readAt
                     => (ServedFromCache(c) /\ c.deletes = 0)
               /\ c.found[1].expiresAt < c.readAt
                     => (c.deletes = 1 /\ c.trackCalls = 1 /\ ~ServedFromCache(c))

\* A getSongById served from a row whose expiresAt is the time of the read.
C9_Witness ==
    \E s \in SettledSong("getSongById") :
        /\ ServedFromCache(songCalls[s])
        /\ songCalls[s].found[1].expiresAt = songCalls[s].readAt

----------------------------------------------------------------------------
\* Two results that differ at most in processingTime.
SameButTime(r1, r2) == [r1 EXCEPT !.processingTime = 0] = [r2 EXCEPT !.processingTime = 0]

\* The writes of getMatch(f1, f2, ...) for a key that are not answered yet.
PendingWrites(key, f1, f2) ==
    {i \in 1..Len(redisQueue) :
        /\ redisQueue[i].cmd = "SETEX"
        /\ redisQueue[i].key = key
        /\ redisQueue[i].src = <<f1, f2>>}

C11_Calls ==
    /\ \A s \in SettledMatch("getMatch") :
          LET c == matchCalls[s]
          IN  /\ c.pc = "returned"
              /\ c.computed = 1 =>
                    /\ c.issued = 1
                    /\ \A i \in PendingWrites(c.key, c.f1, c.f2) :
                          SameButTime(JsonParse(redisQueue[i].val), c.result[1])
                    /\ (c.key \in DOMAIN redis /\ redis[c.key].src = <<c.f1, c.f2>>)
                          => SameButTime(JsonParse(redis[c.key].val), c.result[1])
    /\ \A k \in DOMAIN redis :
          JsonParse(redis[k].val) \in ComputedBy(redis[k].src[1], redis[k].src[2])

\* The answer of a SETEX leaves the store as it was (the write failed) or with
\* the key holding the value of this write, whatever it held before.
C11_LastWriteWins ==
    (redisQueue /= <<>> /\ Head(redisQueue).cmd = "SETEX" /\ redisQueue' = Tail(redisQueue))
        => LET w == Head(redisQueue)
           IN  \/ redis' = redis
               \/ /\ w.key \in DOMAIN redis'
                   /\ redis'[w.key] = [val |-> w.val, exp |-> now + CACHE_TTL,
                                       at |-> now, src |-> w.src]
                   /\ \A k \in DOMAIN redis' \ {w.key} :
                          k \in DOMAIN redis /\ redis'[k] = redis[k]

\* C11: two getMatch calls for the same pair and feature vectors that run at the
\* same time and both miss both compute and both write, both return, their
\* results differ at most in processingTime, and each answered write leaves the
\* key with one entry, that of the later write, equal to that result.
C11_MissRace == [] C11_Calls /\ [][C11_LastWriteWins]_vars

\* The second of two concurrent misses returns while both writes are pending;
\* the two calls measured different processing times.
C11_Witness ==
    \E s \in SettledMatch("getMatch") :
        LET c == matchCalls[s]
        IN  /\ c.pc = "returned" /\ c.computed = 1 /\ c.reads = 1
            /\ ~c.readFailed /\ c.seen = <<>>
            /\ \E i, j \in PendingWrites(c.key, c.f1, c.f2) :
                  /\ i < j
                  /\ redisQueue[i].val /= redisQueue[j].val
                  /\ redisQueue[j].val = JsonStringify(c.result[1])

----------------------------------------------------------------------------
\* The getMatch calls in flight or settled.
MatchCallsOf(op) == {s \in Slots : matchCalls[s].pc /= "idle" /\ matchCalls[s].op = op}

\* The unanswered writes that carry a result.
WritesOf(result) ==
    {i \in 1..Len(redisQueue) :
        /\ redisQueue[i].cmd = "SETEX"
        /\ redisQueue[i].val = JsonStringify(result)}

\* C12: a getMatch that waits for its read has neither computed nor written; a
\* getMatch that computed had its read answered first (unless it bypassed the
\* cache), sent its write with the computed result, and returned with that
\* write still unanswered; nobody waits for the answer of a write.
C12_FireAndForget ==
    /\ \A s \in MatchCallsOf("getMatch") :
          LET c == matchCalls[s]
          IN  /\ c.pc = "get" =>
                    (c.reads = 0 /\ c.computed = 0 /\ c.issued = 0 /\ c.result = <<>>)
              /\ c.computed = 1 =>
                    /\ c.bypass \/ c.reads = 1
                    /\ c.issued = 1
              /\ c.issued = 1 =>
                    /\ c.computed = 1
                    /\ c.result /= <<>>
                    /\ c.pc = "returned"
                    /\ WritesOf(c.result[1]) /= {}
              /\ c.computed \in {0, 1} /\ c.issued \in {0, 1} /\ c.reads \in {0, 1}
    /\ \A i \in 1..Len(redisQueue) :
          redisQueue[i].cmd = "SETEX" => redisQueue[i].by = 0

\* A getMatch whose read was answered nil has returned its result; the write it
\* sent is the only command pending.
C12_Witness ==
    \E s \in SettledMatch("getMatch") :
        LET c == matchCalls[s]
        IN  /\ c.pc = "returned" /\ c.reads = 1 /\ ~c.readFailed /\ c.cached = <<>>
            /\ c.computed = 1 /\ c.issued = 1
            /\ Len(redisQueue) = 1
            /\ WritesOf(c.result[1]) = {1}

----------------------------------------------------------------------------
\* The unanswered reads a call waits for.
ReadsOf(s) ==
    {i \in 1..Len(redisQueue) : redisQueue[i].cmd = "GET" /\ redisQueue[i].by = s}

C13_Calls ==
    \A s \in MatchCallsOf("getMatch") :
        LET c == matchCalls[s]
        IN  c.bypass =>
               /\ c.pc = "returned"
               /\ c.reads = 0 /\ ReadsOf(s) = {} /\ c.cached = <<>>
               /\ c.computed = 1
               /\ c.result /= <<>> /\ c.result[1] \in ComputedBy(c.f1, c.f2)
               /\ c.issued = 1
               /\ \E i \in WritesOf(c.result[1]) :
                     /\ redisQueue[i].key = c.key
                     /\ redisQueue[i].ttl = 604800

\* The answer of a SETEX for a key that holds an unexpired entry leaves the
\* store as it was (the write failed) or replaces the entry, its expiry seven
\* days from now.
C13_Replace ==
    (/\ redisQueue /= <<>> /\ Head(redisQueue).cmd = "SETEX"
     /\ redisQueue' = Tail(redisQueue)
     /\ Live(redis, Head(redisQueue).key, now))
        => LET w == Head(redisQueue)
           IN  \/ redis' = redis
               \/ /\ w.key \in DOMAIN redis'
                   /\ redis'[w.key].val = w.val
                   /\ redis'[w.key].at = now
                   /\ redis'[w.key].exp = now + 604800
                   /\ redis'[w.key].exp >= redis[w.key].exp

\* C13: a getMatch with bypassCache = true sends no read, calls calculateMatch,
\* returns what it computed whatever the store holds, and sends the write with
\* the seven-day TTL; the write, once answered, replaces an unexpired entry and
\* restarts its TTL.
C13_Bypass == [] C13_Calls /\ [][C13_Replace]_vars

\* A getMatch with bypassCache = true has returned a result other than the
\* unexpired entry an earlier call wrote; its write is pending.
C13_Witness ==
    \E s \in SettledMatch("getMatch") :
        LET c == matchCalls[s]
        IN  /\ c.bypass /\ c.pc = "returned"
            /\ Live(redis, c.key, now)
            /\ redis[c.key].at < now
            /\ redis[c.key].src = <<c.f1, c.f2>>
            /\ redis[c.key].val /= JsonStringify(c.result[1])
            /\ WritesOf(c.result[1]) /= {}

----------------------------------------------------------------------------
\* What a read of every key of the match cache would be answered.
Answers(store, t) == [k \in {x \in DOMAIN store : Live(store, x, t)} |-> store[k]]

\* invalidateMatch is answered: a failed DEL is thrown and changes nothing; else
\* the pair's key, in either order of the ids, is gone, a read of it is
\* answered nil, and every other key answers as before.
C14_InvalidateMatch ==
    \A s \in Slots :
        (/\ matchCalls[s].pc = "del" /\ matchCalls[s].op = "invalidateMatch"
         /\ matchCalls'[s].pc /= "del")
            => LET c == matchCalls[s]
                   keys == {getCacheKey(c.id1, c.id2), getCacheKey(c.id2, c.id1)}
               IN  IF matchCalls'[s].pc = "threw"
                   THEN redis' = redis
                   ELSE /\ matchCalls'[s].pc = "returned"
                        /\ keys \cap DOMAIN redis' = {}
                        /\ \A k \in keys : redisGet(redis', k, now) = <<>>
                        /\ Answers(redis', now)
                              = [k \in DOMAIN Answers(redis, now) \ keys |-> redis[k]]
                        /\ (keys \cap DOMAIN Answers(redis, now) = {})
                              => Answers(redis', now) = Answers(redis, now)

\* invalidateSong's delete is answered: the call returns; the row of the song
\* is gone unless the delete failed, a read of it finds nothing, and every
\* other row is as before.
C14_InvalidateSong ==
    \A s \in Slots :
        (/\ songCalls[s].pc = "delete" /\ songCalls[s].op = "invalidateSong"
         /\ songCalls'[s].pc /= "delete")
            => LET id == songCalls[s].id
               IN  /\ songCalls'[s].pc = "returned"
                   /\ IF songCalls'[s].storeFailed
                      THEN songCache' = songCache
                      ELSE /\ id \notin DOMAIN songCache'
                           /\ getCachedSong(TRUE, songCache', id, now).value = <<>>
                           /\ songCache' = [k \in DOMAIN songCache \ {id} |-> songCache[k]]
                           /\ id \notin DOMAIN songCache => songCache' = songCache

\* A read that finds no entry is a miss: calculateMatch / Spotify is called.
C14_NextReadMisses ==
    /\ \A s \in SettledMatch("getMatch") :
          LET c == matchCalls[s]
          IN  (c.reads = 1 /\ ~c.readFailed /\ c.seen = <<>>)
                 => (c.cached = <<>> /\ c.computed = 1)
    /\ \A s \in SettledSong("getSongById") :
          LET c == songCalls[s]
          IN  (~c.findFailed /\ c.found = <<>>) => c.trackCalls = 1

----------------------------------------------------------------------------
\* The rows of song_cache whose expiresAt is before t.
ExpiredRows(store, t) == {k \in DOMAIN store : store[k].expiresAt < t}

\* cleanExpiredCache is answered: the call returns; unless the deleteMany
\* failed (then nothing is deleted and 0 returned) the rows that had expired
\* when the call was made are gone, the others are as they were, the count of
\* the former is returned, and getCacheStats counts that many rows fewer and,
\* unless a row has expired since the call was made, no expired row.
C15_SweepEffect ==
    \A s \in Slots :
        (songCalls[s].pc = "sweep" /\ songCalls'[s].pc /= "sweep")
            => LET called == songCalls[s].readAt
                   expired == ExpiredRows(songCache, called)
                   count == songCalls'[s].result[1]
                   before == songCacheStats(TRUE, songCache, now)
                   after == songCacheStats(TRUE, songCache', now)
               IN  /\ songCalls'[s].pc = "returned"
                   /\ IF songCalls'[s].storeFailed
                      THEN songCache' = songCache /\ count = 0
                      ELSE /\ DOMAIN songCache' = DOMAIN songCache \ expired
                           /\ \A k \in DOMAIN songCache' :
                                 /\ songCache'[k] = songCache[k]
                                 /\ songCache'[k].expiresAt >= called
                           /\ count = Cardinality(expired)
                           /\ songCacheStats(TRUE, songCache', called).expired = 0
                           /\ ExpiredRows(songCache, now) = expired => after.expired = 0
                           /\ after.totalCached = before.totalCached - count

\* An expired row leaves the table only in the answer to cleanExpiredCache's
\* deleteMany, to a delete (of getCachedSong on a read, or of invalidateSong) or
\* to clearAllCache's deleteMany.
C15_Removers ==
    (\E k \in ExpiredRows(songCache, now) : k \notin DOMAIN songCache')
        => \E s \in Slots :
              /\ songCalls[s].pc \in {"sweep", "delete", "clear"}
              /\ songCalls'[s].pc /= songCalls[s].pc

\* C15 (as stated): after a cleanExpiredCache that has returned no row is
\* expired.
C15_SweepAlwaysDeletes ==
    \A s \in SettledSong("cleanExpiredCache") :
        songCalls[s].pc = "returned" => ExpiredRows(songCache, now) = {}

\* C15: a cleanExpiredCache whose deleteMany the store performed deletes the
\* rows with expiresAt before the time of the call and no other, returns their
\* number, and leaves getCacheStats with totalCached less by that number and
\* with expired = 0 unless a row expired during the sweep; a failed
\* deleteMany deletes nothing and returns 0; expired rows go no other way than
\* by a sweep, a delete on read, invalidateSong or clearAllCache.
C15_Sweep == [][C15_SweepEffect /\ C15_Removers]_vars

\* A cleanExpiredCache has deleted the one expired row and left the other.
C15_Witness ==
    \E s \in SettledSong("cleanExpiredCache") :
        LET c == songCalls[s]
        IN  /\ c.pc = "returned" /\ ~c.storeFailed /\ c.result = <<1>>
            /\ Cardinality(DOMAIN songCache) = 1
            /\ \A k \in DOMAIN songCache : songCache[k].expiresAt >= now

----------------------------------------------------------------------------
\* The ids of a sequence of songs.
IdsOf(songs) == [i \in 1..Len(songs) |-> songs[i].id]

\* The position of each returned song among the tracks Spotify returned.
InOrderOf(ids, tracks) ==
    \E pos \in [1..Len(ids) -> 1..Len(tracks)] :
        /\ \A i \in 1..Len(ids) : tracks[pos[i]] = ids[i]
        /\ \A i, j \in 1..Len(ids) : i < j => pos[i] < pos[j]

\* A searchSongs that is past its query has made one searchTracks request,
\* whatever the cache holds; one that has returned gives the songs in the order
\* of the tracks, and, if every upsert it sent was accepted, each of them has
\* a row in song_cache that holds the song returned.
C16_Calls ==
    \A s \in Slots :
        LET c == songCalls[s]
        IN  (c.pc /= "idle" /\ c.op = "searchSongs") =>
               /\ c.searchCalls = IF c.pc = "search" THEN 0 ELSE 1
               /\ c.pc = "returned" =>
                     LET songs == c.result[1].songs
                     IN  /\ InOrderOf(IdsOf(songs), c.tracks)
                         /\ ~c.writeFailed =>
                               \A i \in 1..Len(songs) :
                                  /\ songs[i].id \in DOMAIN songCache
                                  /\ songParse(songCache[songs[i].id].data) = songs[i]
                                  /\ songCache[songs[i].id].expiresAt = songs[i].expiresAt

\* searchSongs pushes a song: it is the song of the track being handled, either
\* parsed from a row that is not expired at this moment, or just fetched and,
\* if the upsert was accepted, now in a row that expires 30 days after the
\* fetch.
C16_Push ==
    \A s \in Slots :
        (/\ songCalls[s].pc \in {"find", "upsert"} /\ songCalls[s].op = "searchSongs"
         /\ Len(songCalls'[s].songs) = Len(songCalls[s].songs) + 1)
            => LET c == songCalls[s]
                   id == currentId(c)
                   song == songCalls'[s].songs[Len(songCalls'[s].songs)]
               IN  /\ song.id = id
                   /\ SubSeq(songCalls'[s].songs, 1, Len(c.songs)) = c.songs
                   /\ IF c.pc = "find"
                      THEN /\ id \in DOMAIN songCache /\ songCache' = songCache
                           /\ song = songParse(songCache[id].data)
                           /\ songCache[id].expiresAt >= now
                      ELSE /\ song = FetchedSong(id, c.fetchedAt)
                           /\ songCalls'[s].stored /= <<>> =>
                                 /\ id \in DOMAIN songCache'
                                 /\ songParse(songCache'[id].data) = song
                                 /\ songCache'[id].expiresAt = c.fetchedAt + 2592000

\* C16 (as stated): after a searchSongs whose upserts were all accepted every
\* song returned has a row that is not expired.
C16_ReturnedSongsUnexpired ==
    \A s \in SettledSong("searchSongs") :
        LET c == songCalls[s]
        IN  (c.pc = "returned" /\ ~c.writeFailed) =>
               \A i \in 1..Len(c.result[1].songs) :
                  LET id == c.result[1].songs[i].id
                  IN  id \in DOMAIN songCache /\ songCache[id].expiresAt >= now

\* C16: every searchSongs sends its query to Spotify, the songs it returns are
\* in the order of the tracks returned, and each has, if the store accepted the
\* writes, a row holding it that was unexpired when searchSongs read it or
\* fetched the song.
C16_Search == [] C16_Calls /\ [][C16_Push]_vars

\* A second search, made while both songs are cached and unexpired, has asked
\* Spotify again and returned the two cached songs in order.
C16_Witness ==
    \E s \in SettledSong("searchSongs") :
        LET c == songCalls[s]
        IN  /\ c.pc = "returned" /\ c.searchCalls = 1
            /\ c.featureCalls = 0 /\ ~c.storeFailed
            /\ IdsOf(c.result[1].songs) = <<SongIdA, SongIdB>>
            /\ \A i \in 1..2 :
                  songCache[c.result[1].songs[i].id].expiresAt >= now

----------------------------------------------------------------------------
(* Properties of the similarity primitives, checked under SpecScore.         *)

\* SpecPrimitives: calculateMatch applied to pairs of vectors that differ from
\* the tests' identicalSong in the fields of one primitive.
identicalSong ==
    AudioFeatures(<<80, 70, 75, 120, 30>>, <<0, 1, 4, -5, 200000>>,
                  <<Some(<<GenrePop, GenreSynth>>), Some(ArtistA), Some(2020)>>)

\* Largest tempo tried (BPM).
MaxTempo == 250

TempoVectors == {[identicalSong EXCEPT !.tempo = a] : a \in 1..MaxTempo}

KeyModeVectors ==
    {[identicalSong EXCEPT !.key = k, !.mode = m] : k \in 0..11, m \in {0, 1}}

\* Longest genre list tried.
MaxGenres == 2

\* Genre lists: absent, empty, and lists with repeated and differently cased
\* names.
GenreLists ==
    {Undefined}
    \cup {Some(g) : g \in UNION {[1..n -> {GenrePop, GenrePopUpper, GenreRock, GenreSynth}] :
                                    n \in 0..MaxGenres}}

GenreVectors == {[identicalSong EXCEPT !.genres = g] : g \in GenreLists}

\* Valence and energy at the values whose differences straddle the thresholds
\* of the explanation (0.2 and 0.5 apart).
MoodLevels == {0, 19, 20, 21, 49, 50, 51, 100}

MoodVectors ==
    {[identicalSong EXCEPT !.valence = v, !.energy = e] : v \in MoodLevels, e \in MoodLevels}

\* Every time signature the AudioFeatures type allows.
TimeSignatureVectors == {[identicalSong EXCEPT !.timeSignature = ts] : ts \in 3..7}

\* Durations (ms) whose differences fall on both sides of 10 s, 30 s, 60 s and
\* 300 s.
DurationLevels ==
    {200000, 209900, 210000, 229900, 230000, 259900, 260000, 350000, 499900, 500000, 600000}

DurationVectors == {[identicalSong EXCEPT !.durationMs = ms] : ms \in DurationLevels}

\* The two vectors of a pair differ in the fields of the same primitive.
PrimitiveFamilies ==
    {TempoVectors, KeyModeVectors, GenreVectors, TimeSignatureVectors, MoodVectors,
     DurationVectors}

InitPrimitives ==
    /\ \E family \in PrimitiveFamilies : features1 \in family /\ features2 \in family
    /\ matchResult = <<>>
    /\ InitCaches
    /\ workload = "pair"

SpecPrimitives == InitPrimitives /\ [][NextScore]_vars

\* The optional signals both vectors carry: a genre list with an entry, an
\* artist that is not the empty string, a release year that is not 0.
OptionalSignals(f1, f2) ==
    {x \in {"genres", "artist", "releaseYear"} :
        \A f \in {f1, f2} :
            IF x = "genres" THEN f.genres /= <<>> /\ f.genres[1] /= <<>>
            ELSE IF x = "artist" THEN f.artist /= <<>> /\ f.artist[1] /= <<>>
            ELSE f.releaseYear /= <<>> /\ f.releaseYear[1] /= 0}

\* f with every mandatory field set to one fixed value.
MandatoryReset(f) ==
    [f EXCEPT !.valence = 0, !.energy = 0, !.danceability = 0, !.tempo = 1,
              !.acousticness = 0, !.key = 0, !.mode = 0, !.timeSignature = 4,
              !.loudness = 0, !.durationMs = 1]

----------------------------------------------------------------------------
\* The similarity calculateMatch reports for the tempo.
TempoOf(r) == r.breakdown.layer1.components.tempo.similarity

\* tempoSimilarity(120, 125) > tempoSimilarity(120, 80), and
\* tempoSimilarity(120, 240) within [0.65, 0.75].
TempoExamples ==
    /\ tempoSimilarity(120, 125) > tempoSimilarity(120, 80)
    /\ 65 * SCALE <= 100 * tempoSimilarity(120, 240)
    /\ 100 * tempoSimilarity(120, 240) <= 75 * SCALE

\* C18: for tempos a, b > 0 and r = max(a, b) / min(a, b), the tempo similarity
\* is 0.7 when |r - 2| < 0.1 and max(0, 1 - |a - b| / 50) otherwise; it is the
\* same for (b, a), and within [0, 1]; (120, 240) gives a value in
\* [0.65, 0.75], and (120, 125) more than (120, 80).
C18_Tempo ==
    (Scored /\ features1 \in TempoVectors /\ features2 \in TempoVectors) =>
        LET a == features1.tempo
            b == features2.tempo
            hi == IF a >= b THEN a ELSE b
            lo == IF a >= b THEN b ELSE a
            sim == TempoOf(Result)
        IN  /\ a > 0 /\ b > 0
            /\ IF 10 * hi - 20 * lo < lo /\ 20 * lo - 10 * hi < lo
               THEN 10 * sim = 7 * SCALE
               ELSE IF hi - lo >= 50 THEN sim = 0
               ELSE 50 * sim = (50 - (hi - lo)) * SCALE
            /\ calculateLayer1(features2, features1).components.tempo.similarity = sim
            /\ 0 <= sim /\ sim <= SCALE
            /\ TempoExamples

\* The tests' doubleTempo: 120 against 240 scores 0.7.
C18_Witness ==
    /\ Scored
    /\ features1.tempo = 120 /\ features2.tempo = 240
    /\ 10 * TempoOf(Result) = 7 * SCALE

----------------------------------------------------------------------------
\* The similarity calculateMatch reports for key and mode.
KeyModeOf(r) == r.breakdown.layer2.components.keyMode.similarity

\* The circle as a sequence of key names, and the steps between two keys on
\* it, the shorter way round.
CircleNames == <<"C", "G", "D", "A", "E", "B", "F#", "C#", "G#", "D#", "A#", "F">>

CirclePosition(key) == CHOOSE p \in 1..12 : CircleNames[p] = KeyNames[key + 1]

CircleSteps(key1, key2) ==
    LET clockwise == (CirclePosition(key2) - CirclePosition(key1)) % 12
    IN  IF clockwise <= 12 - clockwise THEN clockwise ELSE 12 - clockwise

\* The distance matrix is symmetric, zero on the diagonal, and holds the steps
\* on the circle; C major is nearer to G major than to F# major.
KeyMatrixFacts ==
    /\ \A i \in 0..11, j \in 0..11 :
          /\ CIRCLE_DISTANCE_MATRIX[i][j] = CIRCLE_DISTANCE_MATRIX[j][i]
          /\ CIRCLE_DISTANCE_MATRIX[i][j] = CircleSteps(i, j)
          /\ (i /= j) => CIRCLE_DISTANCE_MATRIX[i][j] \in 1..6
    /\ \A i \in 0..11 : CIRCLE_DISTANCE_MATRIX[i][i] = 0
    /\ keySimilarity(0, 1, 7, 1) > keySimilarity(0, 1, 6, 1)

\* C19: for keys in 0..11 and modes in {0, 1} the key similarity is 1 for the
\* same key and mode, 0.7 for the same key in the other mode, and otherwise
\* 1 - d / 6, times 0.8 when the modes differ, d in 1..6 being the steps
\* between the keys on the circle of fifths; the distance matrix is symmetric
\* with a zero diagonal and C major is nearer to G major than to F# major.
C19_KeyMode ==
    (Scored /\ features1 \in KeyModeVectors /\ features2 \in KeyModeVectors) =>
        LET key1 == features1.key
            key2 == features2.key
            sameMode == features1.mode = features2.mode
            d == CircleSteps(key1, key2)
            sim == KeyModeOf(Result)
        IN  /\ IF key1 = key2
               THEN IF sameMode THEN sim = SCALE ELSE 10 * sim = 7 * SCALE
               ELSE /\ d \in 1..6
                    /\ IF sameMode THEN 6 * sim = (6 - d) * SCALE
                       ELSE 60 * sim = 8 * (6 - d) * SCALE
            /\ KeyMatrixFacts

\* C major against G minor: one step and the other mode, (1 - 1/6) * 0.8.
C19_Witness ==
    /\ Scored
    /\ features1.key = 0 /\ features1.mode = 1
    /\ features2.key = 7 /\ features2.mode = 0
    /\ 60 * KeyModeOf(Result) = 40 * SCALE

----------------------------------------------------------------------------
\* The similarity calculateMatch reports for the genres.
GenreOf(r) == r.breakdown.layer3.components.genre.similarity

\* The set of the names of a genre list, letters A-Z folded to a-z; empty for
\* an absent list.
FoldedGenres(genres) ==
    IF genres = <<>> THEN {}
    ELSE {[i \in 1..Len(genres[1][n]) |->
              IF genres[1][n][i] \in 65..90 THEN genres[1][n][i] + 32
              ELSE genres[1][n][i]] : n \in 1..Len(genres[1])}

\* C20: the genre similarity is 0.5 when either list is absent or empty, and
\* otherwise the size of the intersection over the size of the union of the
\* case-folded sets: 0 for disjoint sets, 1 for sets equal after folding; it is
\* the same for the arguments exchanged.
C20_Genre ==
    (Scored /\ features1 \in GenreVectors /\ features2 \in GenreVectors) =>
        LET set1 == FoldedGenres(features1.genres)
            set2 == FoldedGenres(features2.genres)
            sim == GenreOf(Result)
        IN  /\ IF set1 = {} \/ set2 = {}
               THEN 2 * sim = SCALE
               ELSE /\ sim * Cardinality(set1 \cup set2) = SCALE * Cardinality(set1 \cap set2)
                    /\ (set1 \cap set2 = {}) => sim = 0
                    /\ (set1 = set2) => sim = SCALE
            /\ calculateLayer3(features2, features1).components.genre.similarity = sim

\* ['P', 'r'] against ['p']: one name of two in common after folding.
C20_Witness ==
    /\ Scored
    /\ features1.genres = Some(<<GenrePopUpper, GenreRock>>)
    /\ features2.genres = Some(<<GenrePop>>)
    /\ 2 * GenreOf(Result) = SCALE

----------------------------------------------------------------------------
\* The similarity calculateMatch reports for the time signature.
TimeSignatureOf(r) == r.breakdown.layer2.components.timeSignature.similarity

\* C21: for time signatures in 3..7 the similarity is 1.0 for equal
\* signatures, 0.7 for 3 against 6 in either order, and 0.3 for every other
\* pair of distinct signatures.
C21_TimeSignature ==
    (Scored /\ features1 \in TimeSignatureVectors /\ features2 \in TimeSignatureVectors) =>
        LET ts1 == features1.timeSignature
            ts2 == features2.timeSignature
            sim == TimeSignatureOf(Result)
        IN  /\ ts1 \in 3..7 /\ ts2 \in 3..7
            /\ IF ts1 = ts2 THEN sim = SCALE
               ELSE IF {ts1, ts2} = {3, 6} THEN 10 * sim = 7 * SCALE
               ELSE 10 * sim = 3 * SCALE

\* 3/4 against 6/8, the waltz given first: 0.7.
C21_Witness ==
    /\ Scored
    /\ features1.timeSignature = 3 /\ features2.timeSignature = 6
    /\ 10 * TimeSignatureOf(Result) = 7 * SCALE

----------------------------------------------------------------------------
\* The weights of a layer's components in hundredths, and what the layer adds
\* up: the sum of similarity x weight over its components (over SCALE * 100).
WeightsOf(layer, names) == [n \in 1..Len(names) |-> layer.components[names[n]].weight]

SumOf(seq) ==
    LET RECURSIVE add(_)
        add(n) == IF n = 0 THEN 0 ELSE add(n - 1) + seq[n]
    IN  add(Len(seq))

ProductsOf(layer, names) ==
    SumOf([n \in 1..Len(names) |->
              layer.components[names[n]].similarity * layer.components[names[n]].weight])

\* C22: the sub-weights of the layers are 0.15, 0.15, 0.12, 0.10, 0.08 (sum
\* 0.60), 0.10, 0.05, 0.05, 0.05 (sum 0.25) and 0.08, 0.04, 0.03 (sum 0.15);
\* each layer score times the layer's total weight is the sum of similarity x
\* weight over its components; overallScore is round(100 x (0.60 layer1 +
\* 0.25 layer2 + 0.15 layer3)), which is round(100 x the sum of similarity x
\* weight over the 12 components).
C22_Aggregation ==
    Scored =>
        LET b == Result.breakdown
            total == ProductsOf(b.layer1, Layer1Names) + ProductsOf(b.layer2, Layer2Names)
                     + ProductsOf(b.layer3, Layer3Names)
        IN  /\ DOMAIN b.layer1.components = {Layer1Names[n] : n \in 1..5}
            /\ DOMAIN b.layer2.components = {Layer2Names[n] : n \in 1..4}
            /\ DOMAIN b.layer3.components = {Layer3Names[n] : n \in 1..3}
            /\ WeightsOf(b.layer1, Layer1Names) = <<15, 15, 12, 10, 8>>
            /\ WeightsOf(b.layer2, Layer2Names) = <<10, 5, 5, 5>>
            /\ WeightsOf(b.layer3, Layer3Names) = <<8, 4, 3>>
            /\ SumOf(WeightsOf(b.layer1, Layer1Names)) = 60
            /\ SumOf(WeightsOf(b.layer2, Layer2Names)) = 25
            /\ SumOf(WeightsOf(b.layer3, Layer3Names)) = 15
            /\ b.layer1.score * 60 = ProductsOf(b.layer1, Layer1Names) * (LayerDen \div SCALE)
            /\ b.layer2.score * 25 = ProductsOf(b.layer2, Layer2Names) * (LayerDen \div SCALE)
            /\ b.layer3.score * 15 = ProductsOf(b.layer3, Layer3Names) * (LayerDen \div SCALE)
            /\ Result.overallScore
                  = MathRound(60 * b.layer1.score + 25 * b.layer2.score + 15 * b.layer3.score,
                              LayerDen)
            /\ Result.overallScore = MathRound(total, SCALE)

\* Layers of different scores (the third strictly between 0 and 1) whose
\* weighted sum, times 100, falls on a half and is rounded up.
C22_Witness ==
    /\ Scored
    /\ LET b == Result.breakdown
           total == ProductsOf(b.layer1, Layer1Names) + ProductsOf(b.layer2, Layer2Names)
                    + ProductsOf(b.layer3, Layer3Names)
       IN  /\ b.layer1.score /= b.layer3.score
           /\ 0 < b.layer3.score /\ b.layer3.score < LayerDen
           /\ 2 * total = (2 * Result.overallScore - 1) * SCALE

----------------------------------------------------------------------------
\* The sentence is one of the entries of the list.
Emitted(list, sentence) == \E i \in 1..Len(list) : list[i] = sentence

\* The components an explanation speaks of: the similarity reported, the
\* sentence of its strength and the sentence of its weakness.
Explained(r) ==
    LET b == r.breakdown
    IN  [valence |-> <<b.layer1.components.valence.similarity,
                       "Very similar mood and emotional tone",
                       "Different emotional vibes (one more positive/upbeat)">>,
         energy |-> <<b.layer1.components.energy.similarity,
                      "Matching energy levels",
                      "Contrasting energy (one more intense than the other)">>,
         tempo |-> <<b.layer1.components.tempo.similarity,
                     "Similar tempo and rhythm",
                     "Different tempo/speed">>,
         keyMode |-> <<b.layer2.components.keyMode.similarity,
                       "Harmonically compatible (similar key/mode)",
                       "Different harmonic structure (key/mode mismatch)">>,
         genre |-> <<b.layer3.components.genre.similarity,
                     "Shared musical genres",
                     "Different genres">>]

\* The similarity at which component x starts to count as a strength, in
\* tenths.
StrengthThreshold(x) == IF x = "genre" THEN 5 ELSE IF x = "tempo" THEN 7 ELSE 8

----------------------------------------------------------------------------
\* The sum of value.length over the entries of a store.
SizeOf(store) ==
    LET RECURSIVE sum(_)
        sum(keys) == IF keys = {} THEN 0
                     ELSE LET k == CHOOSE x \in keys : TRUE
                          IN  valueLength(store[k].val) + sum(keys \ {k})
    IN  sum(DOMAIN store)

\* The getCacheStats call in slot s has returned, and every entry KEYS listed
\* is still as it was, with time to live left.
StatsOfStableCache(s) ==
    /\ s \in SettledMatch("getCacheStats")
    /\ matchCalls[s].pc = "returned"
    /\ \A k \in DOMAIN matchCalls[s].listed :
          /\ Live(redis, k, now)
          /\ redis[k] = matchCalls[s].listed[k]
          /\ redisTtl(redis, k, now) > 0

\* C24: getCacheStats returns as totalKeys the number of entries that existed
\* when KEYS listed them, as estimatedSize (at most 10 entries) the sum of
\* their lengths, and as oldestKey (at most 100 entries) the key of an entry
\* written earliest, null when there is none.
C24_Stats ==
    \A s \in Slots :
        StatsOfStableCache(s) =>
            LET c == matchCalls[s]
                n == Cardinality(DOMAIN c.listed)
            IN  /\ c.totalKeys = n
                /\ n <= 10 => c.estimatedSize = SizeOf(c.listed)
                /\ n <= 100 =>
                      IF n = 0 THEN c.oldestKey = <<>>
                      ELSE /\ c.oldestKey /= <<>>
                           /\ c.oldestKey[1] \in DOMAIN c.listed
                           /\ \A k \in DOMAIN c.listed :
                                 /\ c.listed[c.oldestKey[1]].at <= c.listed[k].at
                                 /\ c.listed[c.oldestKey[1]].exp <= c.listed[k].exp

----------------------------------------------------------------------------
\* The similarities of the 12 components of a result, by layer and name.
SimilaritiesOf(r) ==
    [l \in {"layer1", "layer2", "layer3"} |->
        [n \in DOMAIN r.breakdown[l].components |-> r.breakdown[l].components[n].similarity]]

\* What calculateMatch returns for the same vectors in the other order.
Swapped == calculateMatch(features2, features1, 0)

\* C25: calculateMatch(a, b) and calculateMatch(b, a) agree on overallScore,
\* confidence, the three layer scores, every component similarity, and the
\* summary, strengths, weaknesses and details of the explanation.
C25_Symmetric ==
    Scored =>
        /\ Result.overallScore = Swapped.overallScore
        /\ Result.confidence = Swapped.confidence
        /\ \A l \in {"layer1", "layer2", "layer3"} :
              Result.breakdown[l].score = Swapped.breakdown[l].score
        /\ SimilaritiesOf(Result) = SimilaritiesOf(Swapped)
        /\ Result.explanation.summary = Swapped.explanation.summary
        /\ Result.explanation.strengths = Swapped.explanation.strengths
        /\ Result.explanation.weaknesses = Swapped.explanation.weaknesses
        /\ Result.explanation.details = Swapped.explanation.details

----------------------------------------------------------------------------
\* C26: every result a getMatch call without bypassCache returns is the result
\* of calculateMatch for the feature vectors of that call, also when the vector
\* resolved for an id differs from the one the pair's entry was computed from;
\* stated for what does not depend on the order of the two vectors: the
\* overallScore, the confidence, the layer scores and the similarities.
C26_Refines ==
    \A s \in SettledMatch("getMatch") :
        LET c == matchCalls[s]
            fresh == calculateMatch(c.f1, c.f2, 0)
        IN  (c.pc = "returned" /\ ~c.bypass) =>
                /\ c.result[1].overallScore = fresh.overallScore
                /\ c.result[1].confidence = fresh.confidence
                /\ \A l \in {"layer1", "layer2", "layer3"} :
                      c.result[1].breakdown[l].score = fresh.breakdown[l].score
                /\ SimilaritiesOf(c.result[1]) = SimilaritiesOf(fresh)

----------------------------------------------------------------------------
----------------------------------------------------------------------------
\* The write that is answered next was sent by a getMatch call that had begun
\* before an invalidateMatch of its key, which has since returned, was called.
EarlyWriteAnswered ==
    /\ redisQueue /= <<>>
    /\ Head(redisQueue).cmd = "SETEX"
    /\ Head(redisQueue).early

\* C28: once invalidateMatch has returned, the entry of the pair stays absent
\* until a getMatch call that began after the invalidation writes it: the
\* write of a call that began earlier does not create the entry.
C28_NotUndone ==
    EarlyWriteAnswered =>
        (Head(redisQueue).key \notin DOMAIN redis => Head(redisQueue).key \notin DOMAIN redis')

C28_InvalidationHolds == [][C28_NotUndone]_vars

----------------------------------------------------------------------------
\* The delete that the lazy expiry of the getSongById or searchSongs call in
\* slot s sent is answered in this step.
LazyDeleteAnswered(s) ==
    /\ songCalls[s].pc = "delete"
    /\ songCalls[s].op \in {"getSongById", "searchSongs"}
    /\ songCalls'[s].pc /= "delete"

\* C29: the delete of a lazy expiry removes only rows whose expiresAt has
\* passed, whatever other calls for the same song did in between: a row whose
\* expiresAt lies in the future is not removed by it.
C29_RemovesExpired ==
    \A s \in Slots :
        LazyDeleteAnswered(s) =>
            \A id \in DOMAIN songCache \ DOMAIN songCache' : songCache[id].expiresAt < now

C29_LazyExpiry == [][C29_RemovesExpired]_vars

----------------------------------------------------------------------------
\* The similarity calculateMatch reports for the duration.
DurationOf(r) == r.breakdown.layer2.components.duration.similarity

\* The absolute duration difference of two vectors, in milliseconds.
DurationDiff(f1, f2) == Abs(f1.durationMs - f2.durationMs)

\* C30: duration similarity is non-increasing in the absolute duration
\* difference: a pair whose durations are at least as far apart as those of
\* the scored pair scores no higher on duration; the similarity is 1.0 for a
\* difference below 10 s and 0 for a difference of 300 s or more.
C30_DurationMonotone ==
    (Scored /\ features1 \in DurationVectors /\ features2 \in DurationVectors) =>
        /\ \A g1, g2 \in DurationVectors :
               DurationDiff(g1, g2) >= DurationDiff(features1, features2)
                   => durationSimilarity(g1.durationMs, g2.durationMs) <= DurationOf(Result)
        /\ DurationDiff(features1, features2) < 10 * 1000 => DurationOf(Result) = SCALE
        /\ DurationDiff(features1, features2) >= 300 * 1000 => DurationOf(Result) = 0

====
